---- MODULE Spec2Model ----
(***************************************************************************)
(* Verification model of the intent-graph engine and its agent loops.      *)
(*                                                                         *)
(*   SpecGraph: IntentGraphLibrary.applyDelta / validateGraph (Java) and   *)
(*              GraphStore.getMergedNodes / GraphQuery.applyDelta (TS)     *)
(*   SpecLoop : PlanningAgent.generateIntention around                     *)
(*              AiAgentClient.chatWithTools / withRetry (TS), and          *)
(*              IntentGraphLibrary.generateDelta / executeTool (Java);     *)
(*              SpecLoopFair adds that every pending step is taken         *)
(*   SpecSpawn: PlanningAgent.spawnSubAgent (TS)                           *)
(*   SpecQuery: the parsers, the graph traversals and the entry-point      *)
(*              filters of both code bases, as pure functions              *)
(*   SpecSandbox: one execute_code call (the three executeCode versions)   *)
(*   SpecReview: pending deltas selected, merged and discarded in an IDE   *)
(*   SpecRepo : IntentGraphLibrary.writeDelta followed by loadGraph        *)
(*   SpecStore: GraphStore events and the tool calls of one tweakNode run  *)
(*   SpecLog  : AgentLogger.log, getRecentLogs and clear                   *)
(***************************************************************************)
EXTENDS Integers, Sequences, FiniteSets, TLC

VARIABLES
    \* ---- IntentGraphLibrary.applyDelta ----
    graph,        \* the IntentGraph the caller passes in (its nodes map)
    graph0,       \* history: the value of graph when the call started
    newNodes,     \* the working map of applyDelta
    applyPc,      \* "ops" | "returned" | "thrown"
    opCount,      \* number of delta operations consumed so far
    lastOp,       \* the operation consumed last
    applyErr,     \* why applyDelta threw, "none" while it has not
    applyResult,  \* what applyDelta returned to its caller, if it returned
    \* ---- GraphStore.getMergedNodes / GraphQuery.applyDelta ----
    storeNodes,   \* GraphStore.nodes, the base Map (entries in insertion order)
    storeNodes0,  \* history: the value of storeNodes when the call started
    pendingOps,   \* the operations of the pending delta "d1" held in GraphStore.intents
    intentArg,    \* the argument of getMergedNodes: "undefined" | "object" | "name_d1" | "name_dX"
    mvPc,         \* "call" | "ops" | "returned"
    mvIdx,        \* index of the next operation of the delta
    mvNewNodes,   \* the working Map of GraphQuery.applyDelta
    mergedResult, \* the node list getMergedNodes returned
    \* ---- AiAgentClient.chatWithTools / withRetry ----
    chatPc,       \* "call" | "sleep" | "tools" | "returned" | "thrown"
    iteration,    \* chatWithTools.iteration
    attempt,      \* withRetry.attempt of the backend call in progress
    lastWait,     \* seconds of the sleep withRetry performs or performed last
    lastHint,     \* the retry hint in the message of the error that sleep follows
    lastError,    \* withRetry.lastError: the status of the error caught last, "none" before
    response,     \* response.choices[0].message of the latest backend response
    chatTail,     \* messages: the entries pushed since the latest assistant message, that one included
    toolIdx,      \* position in toolCalls of the for loop
    roundsRun,    \* history: number of tool-call rounds chatWithTools started
    chatErr,      \* what chatWithTools threw, "none" while it has not
    chatContent,  \* the content chatWithTools returned
    \* ---- IntentGraphLibrary.generateDelta ----
    genPc,        \* "call" | "tools" | "returned" | "thrown"
    turn,         \* generateDelta.turn
    assistant,    \* the message chatClient.complete returned last
    genTail,      \* messages: the entries added since the latest assistant message, that one included
    genIdx,       \* position in toolCalls of the for loop
    genRounds,    \* history: number of turns in which tool calls were executed
    genErr,       \* what generateDelta threw, "none" while it has not
    genResult,    \* what generateDelta returned: the content parseDeltaFromAI parsed
    \* ---- PlanningAgent.generateIntention around chatWithTools ----
    planPc,       \* "running" | "done"
    planResult,   \* what generateIntention returned to its caller
    \* ---- history of one run of an agent loop ----
    backendCalls, \* number of client.chat.completions.create calls chatWithTools made
    waits,        \* number of sleeps withRetry performed
    genCalls,     \* number of chatClient.complete calls generateDelta made
    \* ---- PlanningAgent.spawnSubAgent ----
    activeSubAgentCount, \* PlanningAgent.activeSubAgentCount
    subAgents,    \* per spawn request made so far: "running" | "rejected" | "ended"
    spawnReturn,  \* per spawn request: what spawnSubAgent returned or threw, "pending" before
    spawnParent,  \* per spawn request: the sub-agent whose run awaits its return, 0 for a run of the user or none
    \* ---- one call of a pure function: a parser or a graph query ----
    qFn,          \* the function called
    qArgs,        \* its arguments
    qPc,          \* "call" | "done"
    qResult,      \* what it returned or threw
    \* ---- one execute_code call ----
    sbVariant,    \* which executeCode runs the script
    sbPc,         \* "running" | "awaiting" | "returned" | "faulted"
    sbPhase,      \* "sync" while vm.runInContext runs the script, "async" after its first await
    workspaceFolders, \* the array isPathAllowed reads, also a global of the script
    sbElapsed,    \* milliseconds of script code executed so far
    sbEffects,    \* history: the calls that reached the real file system, <<kind, path>>
    sbResult,     \* what executeCode returned
    sbSteps,      \* statements the script has executed
    sbLast,       \* the value of the script's latest expression
    sbOutside,    \* history: a sandboxedFs method was given a path outside every declared root
    \* ---- review of the pending deltas in one IDE ----
    rvIde,        \* "idea" (IntentGraphViewModel) | "vscode" (extension commands over GraphStore)
    rvDeltas,     \* viewModel.deltas / GraphStore.intents: the pending deltas
    rvSelected,   \* viewModel.selectedDelta / GraphStore.selectedIntent, NoneSelected when null
    rvMerged,     \* history: per delta, how many times it was merged
    rvGenerated,  \* number of deltas generated so far
    rvDialog,     \* the intent an open 'implement' dialog of the extension was shown for
    \* ---- IntentGraphLibrary.writeDelta, then loadGraph ----
    repoFiles,    \* the YAML files under intent/nodes
    repoFiles0,   \* the files under intent/nodes when writeDelta was called
    repoStored,   \* the deltas that have a file under intent/deltas
    repoDelta,    \* the operations of the delta passed to writeDelta
    repoPc,       \* "writeDelta" | "loaded" | "applied" | "thrown" | "persisted" | "written" | "reloaded"
    repoGraph,    \* the graph writeDelta loaded
    repoUpdated,  \* what applyDelta returned to writeDelta
    repoLoaded,   \* the graph loadGraph returned after writeDelta
    \* ---- GraphStore of the extension, its files, and one tweakNode run ----
    stHasRoot,    \* a workspace folder is open (getWorkspaceRoot() is defined)
    stDiskNodes,  \* what the node files under .intent-graph hold
    stDiskIntents,\* the intent files under .intent-graph/intents
    stNodes,      \* GraphStore.nodes (and the GraphQuery built on them)
    stIntents,    \* GraphStore.intents
    stSelected,   \* GraphStore.selectedIntent
    stRunPc,      \* the tweakNode run: "idle" | "waiting" | "done"
    stRunStart,   \* the base graph and the selected intent when the run started
    stAnswers,     \* per tool call of the run: the base graph and the intent it was answered from
    \* ---- AgentLogger ----
    logs,         \* AgentLogger.logs: the entries held, each by its arrival number
    logged,       \* number of log() calls made so far
    logRecent     \* what the getRecentLogs call just made was given and returned

applyVars == <<graph, graph0, newNodes, applyPc, opCount, lastOp, applyErr, applyResult>>
mergedVars == <<storeNodes, storeNodes0, pendingOps, intentArg, mvPc, mvIdx, mvNewNodes, mergedResult>>
chatVars == <<chatPc, iteration, attempt, lastWait, lastHint, lastError, response, chatTail, toolIdx, roundsRun, chatErr, chatContent>>
genVars == <<genPc, turn, assistant, genTail, genIdx, genRounds, genErr, genResult>>
planVars == <<planPc, planResult>>

tallyVars == <<backendCalls, waits, genCalls>>

spawnVars == <<activeSubAgentCount, subAgents, spawnReturn, spawnParent>>

queryVars == <<qFn, qArgs, qPc, qResult>>

repoVars == <<repoFiles, repoFiles0, repoStored, repoDelta, repoPc, repoGraph, repoUpdated, repoLoaded>>

reviewVars == <<rvIde, rvDeltas, rvSelected, rvMerged, rvGenerated, rvDialog>>

sandboxVars == <<sbVariant, sbPc, sbPhase, workspaceFolders, sbElapsed, sbEffects, sbResult, sbSteps, sbLast, sbOutside>>

storeVars == <<stHasRoot, stDiskNodes, stDiskIntents, stNodes, stIntents, stSelected, stRunPc, stRunStart, stAnswers>>

logVars == <<logs, logged, logRecent>>

vars == <<applyVars, mergedVars, chatVars, genVars, planVars, tallyVars, spawnVars, queryVars, sandboxVars, reviewVars, repoVars, storeVars, logVars>>

\* what the actions of one component leave unchanged: the state of all the others
ApplyFrame == <<mergedVars, chatVars, genVars, planVars, spawnVars, queryVars, tallyVars, sandboxVars, reviewVars, repoVars, storeVars, logVars>>
MergedFrame == <<applyVars, chatVars, genVars, planVars, spawnVars, queryVars, tallyVars, sandboxVars, reviewVars, repoVars, storeVars, logVars>>
ChatFrame == <<applyVars, mergedVars, genVars, planVars, spawnVars, queryVars, sandboxVars, reviewVars, repoVars, storeVars, logVars>>
GenFrame == <<applyVars, mergedVars, chatVars, planVars, spawnVars, queryVars, sandboxVars, reviewVars, repoVars, storeVars, logVars>>
PlanFrame == <<applyVars, mergedVars, chatVars, genVars, spawnVars, queryVars, tallyVars, sandboxVars, reviewVars, repoVars, storeVars, logVars>>
SpawnFrame == <<applyVars, mergedVars, chatVars, genVars, planVars, queryVars, tallyVars, sandboxVars, reviewVars, repoVars, storeVars, logVars>>
\* the agent loops update the history themselves (Tally)
QueryFrame == <<applyVars, mergedVars, chatVars, genVars, planVars, spawnVars, tallyVars, sandboxVars, reviewVars, repoVars, storeVars, logVars>>
SandboxFrame == <<applyVars, mergedVars, chatVars, genVars, planVars, spawnVars, queryVars, tallyVars, reviewVars, repoVars, storeVars, logVars>>
ReviewFrame == <<applyVars, mergedVars, chatVars, genVars, planVars, spawnVars, queryVars, tallyVars, sandboxVars, repoVars, storeVars, logVars>>
RepoFrame == <<applyVars, mergedVars, chatVars, genVars, planVars, spawnVars, queryVars, tallyVars, sandboxVars, reviewVars, storeVars, logVars>>
StoreFrame == <<applyVars, mergedVars, chatVars, genVars, planVars, tallyVars, spawnVars, queryVars, sandboxVars, reviewVars, repoVars, logVars>>
LogFrame == <<applyVars, mergedVars, chatVars, genVars, planVars, tallyVars, spawnVars, queryVars, sandboxVars, reviewVars, repoVars, storeVars>>

(***************************************************************************)
(* Bounds of the model                                                     *)
(***************************************************************************)
MaxOps == 2            \* longest delta explored
MaxRefs == 2           \* longest inputs/outputs list ADD_EDGE may build
MaxDeltaOps == 3       \* longest pending delta overlaid by the merged view
MaxBatch == 2          \* most tool calls the backend requests in one response
MaxSpawns == 7         \* most spawn requests made on one PlanningAgent
MaxRuns == 2           \* most runs of the user in progress on one PlanningAgent
MaxToolCalls == 2      \* most tool calls of the tweakNode run explored
MaxLogged == 102       \* most log() calls made on the AgentLogger
MaxScriptSteps == 3    \* most statements one script executes before it returns or throws
MaxDeltas == 3         \* most deltas generated during one review session
MaxMerges == 2         \* most merges of one delta explored

Ids == {"n1", "n2"}

Range(s) == {s[i] : i \in 1..Len(s)}

\* inputs/outputs lists carried by loaded nodes and by payload nodes
RefLists == {<<>>} \cup {<<r>> : r \in Ids}

(***************************************************************************)
(* Data model: IntentNode, IntentGraph, DeltaOperation                     *)
(***************************************************************************)
IntentNode(id, name, inputs, outputs) ==
    [id |-> id, name |-> name, inputs |-> inputs, outputs |-> outputs]

\* nodes as loadGraph reads them (name "a") and as a delta's payload carries them (name "b")
\* (a node drawn as input declares at most one edge; ADD_EDGE builds the longer lists)
RefPairs == {p \in RefLists \X RefLists : p[1] = <<>> \/ p[2] = <<>>}
BaseNodes(id) == {IntentNode(id, "a", p[1], p[2]) : p \in RefPairs}
PayloadNodes == {IntentNode(id, "b", p[1], p[2]) : id \in Ids, p \in RefPairs}

\* loadGraph: allNodes.put(node.id(), node) -- every node is keyed by its own id
LoadedGraphs ==
    UNION {{g \in [S -> UNION {BaseNodes(id) : id \in S}] : \A k \in S : g[k].id = k} : S \in SUBSET Ids}

NullPayload == [kind |-> "null"]
NodePayload(n) == [kind |-> "node", node |-> n]
EdgePayload(t, r) == [kind |-> "edge", type |-> t, ref |-> r]

DeltaOperation(type, target, payload) == [type |-> type, target |-> target, payload |-> payload]

NoOp == DeltaOperation("NONE", "n1", NullPayload)

AddOps == {DeltaOperation("ADD_NODE", n.id, NodePayload(n)) : n \in PayloadNodes}
              \cup {DeltaOperation("ADD_NODE", "n1", NullPayload)}
UpdateOps == {DeltaOperation("UPDATE_NODE", t, NodePayload(n)) : t \in Ids, n \in PayloadNodes}
              \cup {DeltaOperation("UPDATE_NODE", t, NullPayload) : t \in Ids}
RemoveOps == {DeltaOperation("REMOVE_NODE", t, NullPayload) : t \in Ids}
AddEdgeOps == {DeltaOperation("ADD_EDGE", t, EdgePayload(ty, r)) : t \in Ids, ty \in {"input", "output"}, r \in Ids}
              \cup {DeltaOperation("ADD_EDGE", t, NullPayload) : t \in Ids}
RemoveEdgeOps == {DeltaOperation("REMOVE_EDGE", t, EdgePayload(ty, r)) : t \in Ids, ty \in {"input", "output"}, r \in Ids}
              \cup {DeltaOperation("REMOVE_EDGE", t, NullPayload) : t \in Ids}

(***************************************************************************)
(* Map helpers (java.util.HashMap put / remove)                            *)
(***************************************************************************)
MapPut(m, k, v) == [x \in (DOMAIN m) \cup {k} |-> IF x = k THEN v ELSE m[x]]
MapRemove(m, k) == [x \in (DOMAIN m) \ {k} |-> m[x]]

(***************************************************************************)
(* validateGraph, hasCycles, isCyclic                                      *)
(***************************************************************************)
\* mutant: the loop over the inputs stops at the first missing reference
MissingInputErrors_firstOnly(g) ==
    LET all == {e \in {<<"input", k, i>> : k \in DOMAIN g, i \in 1..MaxRefs} :
                    e[3] <= Len(g[e[2]].inputs) /\ g[e[2]].inputs[e[3]] \notin DOMAIN g}
    IN  IF all = {} THEN {} ELSE {CHOOSE e \in all : TRUE}

\* one error per list position whose reference is not a key of the graph
MissingInputErrors(g) ==
    {e \in {<<"input", k, i>> : k \in DOMAIN g, i \in 1..MaxRefs} :
        e[3] <= Len(g[e[2]].inputs) /\ g[e[2]].inputs[e[3]] \notin DOMAIN g}

\* mutant: the loop over node.outputs() is missing
MissingOutputErrors_unchecked(g) == {}

MissingOutputErrors(g) ==
    {e \in {<<"output", k, i>> : k \in DOMAIN g, i \in 1..MaxRefs} :
        e[3] <= Len(g[e[2]].outputs) /\ g[e[2]].outputs[e[3]] \notin DOMAIN g}

\* mutant: isCyclic follows the outputs only
Neighbors_outputsOnly(g, nodeId) ==
    IF nodeId \in DOMAIN g THEN Range(g[nodeId].outputs) ELSE {}

\* the neighbours isCyclic follows from a key: the inputs and the outputs of the node stored there
Neighbors(g, nodeId) ==
    IF nodeId \in DOMAIN g THEN Range(g[nodeId].inputs) \cup Range(g[nodeId].outputs) ELSE {}

DfsResult(c, v, r) == [cyclic |-> c, visited |-> v, recStack |-> r]

RECURSIVE isCyclic(_, _, _, _)
RECURSIVE isCyclicEach(_, _, _, _)
isCyclic(nodeId, g, visited, recStack) ==
    IF nodeId \in recStack THEN DfsResult(TRUE, visited, recStack)
    ELSE IF nodeId \in visited THEN DfsResult(FALSE, visited, recStack)
    ELSE LET r == isCyclicEach(Neighbors(g, nodeId), g, visited \cup {nodeId}, recStack \cup {nodeId})
         IN  IF r.cyclic THEN r
             ELSE DfsResult(FALSE, r.visited, r.recStack \ {nodeId})

\* the for loop over a set of ids, returning at the first id found cyclic
isCyclicEach(todo, g, visited, recStack) ==
    IF todo = {} THEN DfsResult(FALSE, visited, recStack)
    ELSE LET n == CHOOSE x \in todo : TRUE
             r == isCyclic(n, g, visited, recStack)
         IN  IF r.cyclic THEN r
             ELSE isCyclicEach(todo \ {n}, g, r.visited, r.recStack)

hasCycles(g) == isCyclicEach(DOMAIN g, g, {}, {}).cyclic

CycleErrors(g) == IF hasCycles(g) THEN {<<"cycle">>} ELSE {}

validateGraph(g) ==
    LET errors == MissingInputErrors(g) \cup MissingOutputErrors(g) \cup CycleErrors(g)
    IN  [isValid |-> errors = {}, errors |-> errors]

(***************************************************************************)
(* applyDelta: one step per delta operation, in list order                 *)
(***************************************************************************)
StepOk(nodes) == [err |-> "none", nodes |-> nodes]
StepFail(err, nodes) == [err |-> err, nodes |-> nodes]

\* mutant: ADD_NODE without the containsKey check
addNode_overwrite(nn, op) ==
    IF op.payload.kind = "null" THEN StepFail("no_payload", nn)
    ELSE StepOk(MapPut(nn, op.payload.node.id, op.payload.node))

\* case ADD_NODE
addNode(nn, op) ==
    IF op.payload.kind = "null" THEN StepFail("no_payload", nn)
    ELSE IF op.payload.node.id \in DOMAIN nn THEN StepFail("duplicate", nn)
    ELSE StepOk(MapPut(nn, op.payload.node.id, op.payload.node))

\* case UPDATE_NODE
updateNode(nn, op) ==
    IF op.payload.kind = "null" THEN StepFail("no_payload", nn)
    ELSE IF op.target \notin DOMAIN nn THEN StepFail("not_found", nn)
    ELSE StepOk(MapPut(nn, op.target, op.payload.node))

\* case REMOVE_NODE
removeNode(nn, op) == StepOk(MapRemove(nn, op.target))

\* case ADD_EDGE
addEdge(nn, op) ==
    IF op.target \notin DOMAIN nn THEN StepFail("not_found", nn)
    ELSE IF op.payload.kind = "null" THEN StepFail("null_pointer", nn)
    ELSE LET t == nn[op.target]
         IN  IF op.payload.type = "input"
             THEN StepOk(MapPut(nn, op.target, IntentNode(t.id, t.name, Append(t.inputs, op.payload.ref), t.outputs)))
             ELSE StepOk(MapPut(nn, op.target, IntentNode(t.id, t.name, t.inputs, Append(t.outputs, op.payload.ref))))

\* case REMOVE_EDGE
removeEdge(nn, op) ==
    IF op.target \notin DOMAIN nn THEN StepFail("not_found", nn)
    ELSE IF op.payload.kind = "null" THEN StepFail("null_pointer", nn)
    ELSE LET t == nn[op.target]
             keep(r) == r # op.payload.ref
         IN  IF op.payload.type = "input"
             THEN StepOk(MapPut(nn, op.target, IntentNode(t.id, t.name, SelectSeq(t.inputs, keep), t.outputs)))
             ELSE StepOk(MapPut(nn, op.target, IntentNode(t.id, t.name, t.inputs, SelectSeq(t.outputs, keep))))

\* the lists of a working map stay within the model's bound
WithinRefs(nn) == \A k \in DOMAIN nn : Len(nn[k].inputs) <= MaxRefs /\ Len(nn[k].outputs) <= MaxRefs

\* mutant: newNodes is graph.nodes() itself, not a copy
InputGraphAfterWrite_aliased(g, written) == written

\* newNodes is a fresh HashMap copied from graph.nodes(): writes to it do not reach the caller's map
InputGraphAfterWrite(g, written) == g

NoResult == [returned |-> FALSE, nodes |-> <<>>]
Returned(g) == [returned |-> TRUE, nodes |-> g]

\* the body of the for loop for one operation: the switch, then either the throw or the next iteration
ApplyStep(op, r) ==
    /\ applyPc = "ops"
    /\ opCount < MaxOps
    /\ WithinRefs(r.nodes)
    /\ lastOp' = op
    /\ opCount' = opCount + 1
    /\ newNodes' = r.nodes
    /\ graph' = InputGraphAfterWrite(graph, r.nodes)
    /\ applyErr' = r.err
    /\ applyPc' = IF r.err = "none" THEN "ops" ELSE "thrown"
    /\ UNCHANGED <<graph0, applyResult>>
    /\ UNCHANGED ApplyFrame

ApplyAddNode == \E op \in AddOps : ApplyStep(op, addNode(newNodes, op))
ApplyUpdateNode == \E op \in UpdateOps : ApplyStep(op, updateNode(newNodes, op))
ApplyRemoveNode == \E op \in RemoveOps : ApplyStep(op, removeNode(newNodes, op))
ApplyAddEdge == \E op \in AddEdgeOps : ApplyStep(op, addEdge(newNodes, op))
ApplyRemoveEdge == \E op \in RemoveEdgeOps : ApplyStep(op, removeEdge(newNodes, op))

\* after the last operation: validateGraph(newGraph), then throw or return newGraph
ApplyFinish ==
    /\ applyPc = "ops"
    /\ LET validation == validateGraph(newNodes)
       IN  IF validation.isValid
           THEN /\ applyPc' = "returned"
                /\ applyResult' = Returned(newNodes)
                /\ applyErr' = "none"
           ELSE /\ applyPc' = "thrown"
                /\ applyResult' = NoResult
                /\ applyErr' = "invalid"
    /\ UNCHANGED <<graph, graph0, newNodes, opCount, lastOp>>
    /\ UNCHANGED ApplyFrame

ApplyInit ==
    /\ graph \in LoadedGraphs
    /\ graph0 = graph
    /\ newNodes = graph
    /\ applyPc = "ops"
    /\ opCount = 0
    /\ lastOp = NoOp
    /\ applyErr = "none"
    /\ applyResult = NoResult

ApplyNext ==
    \/ ApplyAddNode
    \/ ApplyUpdateNode
    \/ ApplyRemoveNode
    \/ ApplyAddEdge
    \/ ApplyRemoveEdge
    \/ ApplyFinish

ApplyIdle ==
    /\ graph = <<>>
    /\ graph0 = <<>>
    /\ newNodes = <<>>
    /\ applyPc = "idle"
    /\ opCount = 0
    /\ lastOp = NoOp
    /\ applyErr = "none"
    /\ applyResult = NoResult

(***************************************************************************)
(* The repository on disk: writeDelta (loadGraph, applyDelta,              *)
(* persistGraph) followed by loadGraph. A file of intent/nodes is its      *)
(* directory (the node type it was written for), its name (the id it was   *)
(* written for) and the node its YAML holds.                               *)
(***************************************************************************)
NodeTypes == {"behavior", "decision"}

TypedNode(id, type, name) ==
    [id |-> id, type |-> type, name |-> name, inputs |-> <<>>, outputs |-> <<>>]

NodeFile(type, name, node) == [type |-> type, name |-> name, node |-> node]

\* new File(new File(nodesDir, node.type().name()), node.id() + ".yaml")
PathOf(node) == <<node.type, node.id>>

\* repositories as persistGraph leaves them: one file per node, at the path of that node
Repositories ==
    UNION {{{NodeFile(t[id], id, TypedNode(id, t[id], "a")) : id \in S} : t \in [S -> NodeTypes]} : S \in SUBSET Ids}

RepoPayloads == {TypedNode(id, t, "b") : id \in Ids, t \in NodeTypes}
RepoOps ==
    {DeltaOperation("ADD_NODE", n.id, NodePayload(n)) : n \in RepoPayloads}
        \cup {DeltaOperation("UPDATE_NODE", t, NodePayload(n)) : t \in Ids, n \in RepoPayloads}
        \cup {DeltaOperation("REMOVE_NODE", t, NullPayload) : t \in Ids}
RepoDeltas == UNION {[1..n -> RepoOps] : n \in 0..MaxOps}

\* loadGraph: allNodes.put(node.id(), node) for every file Files.walk yields; of several
\* files holding the same id the one walked last stays, and the walk order is the file
\* system's
LoadResults(files) ==
    LET ids == {f.node.id : f \in files}
    IN  {g \in [ids -> {f.node : f \in files}] : \A id \in ids : g[id].id = id}

\* the switch of applyDelta for one operation
applyOp(nn, op) ==
    CASE op.type = "ADD_NODE" -> addNode(nn, op)
      [] op.type = "UPDATE_NODE" -> updateNode(nn, op)
      [] op.type = "REMOVE_NODE" -> removeNode(nn, op)
      [] op.type = "ADD_EDGE" -> addEdge(nn, op)
      [] op.type = "REMOVE_EDGE" -> removeEdge(nn, op)

RECURSIVE applyOps(_, _)
applyOps(nn, ops) ==
    IF ops = <<>> THEN StepOk(nn)
    ELSE LET r == applyOp(nn, Head(ops))
         IN  IF r.err # "none" THEN r ELSE applyOps(r.nodes, Tail(ops))

\* applyDelta as a whole: the loop, then validateGraph; NoResult when it throws
applyDelta(g, ops) ==
    LET r == applyOps(g, ops)
    IN  IF r.err = "none" /\ validateGraph(r.nodes).isValid THEN Returned(r.nodes) ELSE NoResult

\* persistGraph, "Handle removals": a file whose node id is no key of the graph is deleted
FilesAfterRemovals(files, g) == {f \in files : f.node.id \in DOMAIN g}

\* writeDelta up to loadGraph: mapper.writeValue(deltaFile, delta), then the graph is loaded
RepoLoadGraph ==
    /\ repoPc = "writeDelta"
    /\ \E g \in LoadResults(repoFiles) :
        /\ repoGraph' = g
        /\ repoPc' = "loaded"
    /\ repoStored' = repoStored \cup {repoDelta}
    /\ UNCHANGED <<repoFiles, repoFiles0, repoDelta, repoUpdated, repoLoaded>>
    /\ UNCHANGED RepoFrame

\* applyDelta(graph, delta): the updated graph, or the exception that ends writeDelta
RepoApplyDelta ==
    /\ repoPc = "loaded"
    /\ repoUpdated' = applyDelta(repoGraph, repoDelta)
    /\ repoPc' = IF repoUpdated'.returned THEN "applied" ELSE "thrown"
    /\ UNCHANGED <<repoFiles, repoFiles0, repoStored, repoDelta, repoGraph, repoLoaded>>
    /\ UNCHANGED RepoFrame

\* persistGraph, first loop: every node of graph.nodes().values() is written to its path;
\* of two nodes with one path the one written last stays
RepoPersistNodes ==
    /\ repoPc = "applied"
    /\ LET g == repoUpdated.nodes
           values == {g[k] : k \in DOMAIN g}
           paths == {PathOf(n) : n \in values}
       IN  \E last \in [paths -> values] :
                /\ \A p \in paths : PathOf(last[p]) = p
                /\ repoFiles' = {f \in repoFiles : <<f.type, f.name>> \notin paths}
                                    \cup {NodeFile(p[1], p[2], last[p]) : p \in paths}
    /\ repoPc' = "persisted"
    /\ UNCHANGED <<repoFiles0, repoStored, repoDelta, repoGraph, repoUpdated, repoLoaded>>
    /\ UNCHANGED RepoFrame

\* persistGraph, second loop, and the return of writeDelta
RepoPersistRemovals ==
    /\ repoPc = "persisted"
    /\ repoFiles' = FilesAfterRemovals(repoFiles, repoUpdated.nodes)
    /\ repoPc' = "written"
    /\ UNCHANGED <<repoFiles0, repoStored, repoDelta, repoGraph, repoUpdated, repoLoaded>>
    /\ UNCHANGED RepoFrame

\* loadGraph of the repository after writeDelta returned
RepoLoadAgain ==
    /\ repoPc = "written"
    /\ \E g \in LoadResults(repoFiles) :
        /\ repoLoaded' = g
        /\ repoPc' = "reloaded"
    /\ UNCHANGED <<repoFiles, repoFiles0, repoStored, repoDelta, repoGraph, repoUpdated>>
    /\ UNCHANGED RepoFrame

RepoFields ==
    /\ repoGraph = <<>>
    /\ repoUpdated = NoResult
    /\ repoLoaded = <<>>

RepoInit ==
    /\ repoFiles \in Repositories
    /\ repoFiles0 = repoFiles
    /\ repoStored = {}
    /\ repoDelta \in RepoDeltas
    /\ repoPc = "writeDelta"
    /\ RepoFields

RepoIdle ==
    /\ repoFiles = {}
    /\ repoFiles0 = {}
    /\ repoStored = {}
    /\ repoDelta = <<>>
    /\ repoPc = "idle"
    /\ RepoFields

RepoNext ==
    \/ RepoLoadGraph
    \/ RepoApplyDelta
    \/ RepoPersistNodes
    \/ RepoPersistRemovals
    \/ RepoLoadAgain

(***************************************************************************)
(* GraphStore of the extension: refresh, selectIntent, saveIntent and      *)
(* deleteIntent, the files they read and write, and the tool calls of one  *)
(* tweakNode run against the store                                         *)
(***************************************************************************)
IntentNames == {"d1", "d2"}
\* what the node files hold, by revision
Revisions == {1, 2}

Intent(name) == [given |-> TRUE, name |-> name]
NoIntent == [given |-> FALSE]
Intents == {Intent(n) : n \in IntentNames}

\* the intent files of a directory: one file per name
IntentDirs == SUBSET Intents

\* what a tool call of the run reads: this.query and the intent handed to executeTool
Reading(nodes, intent) == [base |-> nodes, intent |-> intent]
NoReading == [base |-> 0, intent |-> NoIntent]

\* refresh(): nodes and intents as loaded from disk, or what they were without a root
LoadedNodes == IF stHasRoot THEN stDiskNodes ELSE stNodes
LoadedIntents(dir) == IF stHasRoot THEN dir ELSE stIntents

\* the file watcher fired, or any other caller of refresh()
StoreRefresh ==
    /\ stNodes' = LoadedNodes
    /\ stIntents' = LoadedIntents(stDiskIntents)
    /\ UNCHANGED <<stHasRoot, stDiskNodes, stDiskIntents, stSelected, stRunPc, stRunStart, stAnswers>>
    /\ UNCHANGED StoreFrame

\* selectIntent(intent): an intent of the tree view, or null
StoreSelectIntent ==
    /\ \E intent \in stIntents \cup {NoIntent} : stSelected' = intent
    /\ UNCHANGED <<stHasRoot, stDiskNodes, stDiskIntents, stNodes, stIntents, stRunPc, stRunStart, stAnswers>>
    /\ UNCHANGED StoreFrame

\* saveIntent(intent): YamlLoader.saveIntent, then refresh()
StoreSaveIntent ==
    /\ \E intent \in Intents :
        LET dir == IF stHasRoot
                   THEN {i \in stDiskIntents : i.name # intent.name} \cup {intent}
                   ELSE stDiskIntents
        IN  /\ stDiskIntents' = dir
            /\ stIntents' = LoadedIntents(dir)
    /\ stNodes' = LoadedNodes
    /\ UNCHANGED <<stHasRoot, stDiskNodes, stSelected, stRunPc, stRunStart, stAnswers>>
    /\ UNCHANGED StoreFrame

\* deleteIntent(intentName): YamlLoader.deleteIntent, then refresh()
StoreDeleteIntent ==
    /\ \E name \in IntentNames :
        LET dir == IF stHasRoot THEN {i \in stDiskIntents : i.name # name} ELSE stDiskIntents
        IN  /\ stDiskIntents' = dir
            /\ stIntents' = LoadedIntents(dir)
    /\ stNodes' = LoadedNodes
    /\ UNCHANGED <<stHasRoot, stDiskNodes, stSelected, stRunPc, stRunStart, stAnswers>>
    /\ UNCHANGED StoreFrame

\* a node file is changed on disk by the user or another program
DiskNodesChange ==
    /\ stHasRoot
    /\ \E rev \in Revisions \ {stDiskNodes} : stDiskNodes' = rev
    /\ UNCHANGED <<stHasRoot, stDiskIntents, stNodes, stIntents, stSelected, stRunPc, stRunStart, stAnswers>>
    /\ UNCHANGED StoreFrame

\* an intent file is removed on disk by the user or another program
DiskIntentRemoved ==
    /\ stHasRoot
    /\ \E intent \in stDiskIntents : stDiskIntents' = stDiskIntents \ {intent}
    /\ UNCHANGED <<stHasRoot, stDiskNodes, stNodes, stIntents, stSelected, stRunPc, stRunStart, stAnswers>>
    /\ UNCHANGED StoreFrame

\* tweakNode is called and reaches its first await inside chatWithTools
TweakNodeStarts ==
    /\ stRunPc = "idle"
    /\ stRunPc' = "waiting"
    /\ stRunStart' = Reading(stNodes, stSelected)
    /\ UNCHANGED <<stHasRoot, stDiskNodes, stDiskIntents, stNodes, stIntents, stSelected, stAnswers>>
    /\ UNCHANGED StoreFrame

\* the toolExecutor of tweakNode runs for one tool call:
\* currentIntent = this.store.getSelectedIntent(); executeTool(name, args, currentIntent || undefined)
TweakNodeToolCall ==
    /\ stRunPc = "waiting"
    /\ Len(stAnswers) < MaxToolCalls
    /\ stAnswers' = Append(stAnswers, Reading(stNodes, stSelected))
    /\ UNCHANGED <<stHasRoot, stDiskNodes, stDiskIntents, stNodes, stIntents, stSelected, stRunPc, stRunStart>>
    /\ UNCHANGED StoreFrame

\* chatWithTools returns to tweakNode
TweakNodeEnds ==
    /\ stRunPc = "waiting"
    /\ stRunPc' = "done"
    /\ UNCHANGED <<stHasRoot, stDiskNodes, stDiskIntents, stNodes, stIntents, stSelected, stRunStart, stAnswers>>
    /\ UNCHANGED StoreFrame

\* the constructor: nodes and intents empty, selectedIntent null, then refresh()
StoreInit ==
    /\ stHasRoot \in BOOLEAN
    /\ stDiskNodes \in Revisions
    /\ stDiskIntents \in IntentDirs
    /\ stNodes = (IF stHasRoot THEN stDiskNodes ELSE 0)
    /\ stIntents = (IF stHasRoot THEN stDiskIntents ELSE {})
    /\ stSelected = NoIntent
    /\ stRunPc = "idle"
    /\ stRunStart = NoReading
    /\ stAnswers = <<>>

StoreIdle ==
    /\ stHasRoot = FALSE
    /\ stDiskNodes = 0
    /\ stDiskIntents = {}
    /\ stNodes = 0
    /\ stIntents = {}
    /\ stSelected = NoIntent
    /\ stRunPc = "off"
    /\ stRunStart = NoReading
    /\ stAnswers = <<>>

StoreNext ==
    \/ StoreRefresh
    \/ StoreSelectIntent
    \/ StoreSaveIntent
    \/ StoreDeleteIntent
    \/ DiskNodesChange
    \/ DiskIntentRemoved
    \/ TweakNodeStarts
    \/ TweakNodeToolCall
    \/ TweakNodeEnds

(***************************************************************************)
(* AgentLogger: log, getRecentLogs and clear on the singleton instance     *)
(***************************************************************************)
maxLogs == 100

\* the count argument of getRecentLogs, or its absence
Count(n) == [given |-> TRUE, n |-> n]
NoCount == [given |-> FALSE]
Counts == {NoCount} \cup {Count(n) : n \in {0, 1, 2, maxLogs - 1, maxLogs, maxLogs + 1}}

NoCall == [called |-> FALSE]
RecentLogs(count, result) == [called |-> TRUE, count |-> count, result |-> result]

\* this.logs.push(entry); if (this.logs.length > this.maxLogs) this.logs.shift()
AfterPush(entries, entry) ==
    LET pushed == Append(entries, entry)
    IN  IF Len(pushed) > maxLogs THEN Tail(pushed) ELSE pushed

\* Array.prototype.slice(start): a negative start counts from the end, and -0 is 0
slice(entries, start) ==
    LET len == Len(entries)
        k == IF start < 0 THEN (IF len + start > 0 THEN len + start ELSE 0)
             ELSE (IF start < len THEN start ELSE len)
    IN  SubSeq(entries, k + 1, len)

\* const n = count ?? this.maxLogs; return this.logs.slice(-n)
getRecentLogs(entries, count) ==
    LET n == IF count.given THEN count.n ELSE maxLogs
    IN  slice(entries, 0 - n)

AgentLog ==
    /\ logged < MaxLogged
    /\ logged' = logged + 1
    /\ logs' = AfterPush(logs, logged + 1)
    /\ logRecent' = NoCall
    /\ UNCHANGED LogFrame

AgentGetRecentLogs ==
    /\ \E count \in Counts : logRecent' = RecentLogs(count, getRecentLogs(logs, count))
    /\ UNCHANGED <<logs, logged>>
    /\ UNCHANGED LogFrame

AgentClear ==
    /\ logs' = <<>>
    /\ logRecent' = NoCall
    /\ UNCHANGED logged
    /\ UNCHANGED LogFrame

LogInit ==
    /\ logs = <<>>
    /\ logged = 0
    /\ logRecent = NoCall

LogIdle == LogInit

LogNext == AgentLog \/ AgentGetRecentLogs \/ AgentClear

(***************************************************************************)
(* Merged view: GraphStore.getMergedNodes over GraphQuery.applyDelta       *)
(* A JavaScript Map is a sequence of <<key, value>> entries in insertion   *)
(* order.                                                                  *)
(***************************************************************************)
TsNode(id, name) == [id |-> id, name |-> name]
TsOp(operation, node) == [operation |-> operation, node |-> node]

JsKeys(m) == {m[i][1] : i \in 1..Len(m)}
JsGet(m, k) == {m[i][2] : i \in {j \in 1..Len(m) : m[j][1] = k}}
\* Map.prototype.set: an existing key keeps its position, a new key goes last
JsSet(m, k, v) ==
    IF k \in JsKeys(m)
    THEN [i \in 1..Len(m) |-> IF m[i][1] = k THEN <<k, v>> ELSE m[i]]
    ELSE Append(m, <<k, v>>)
JsDelete(m, k) == LET keep(e) == e[1] # k IN SelectSeq(m, keep)
\* Array.from(map.values())
JsValues(m) == [i \in 1..Len(m) |-> m[i][2]]

\* YamlLoader.loadNodes: nodes.set(node.id, node), in directory order
LoadedStores ==
    {<<>>} \cup {<<<<a, TsNode(a, "a")>>>> : a \in Ids}
          \cup {<<<<a, TsNode(a, "a")>>, <<b, TsNode(b, "a")>>>> : <<a, b>> \in {p \in Ids \X Ids : p[1] # p[2]}}

TsOps == {TsOp(o, TsNode(id, nm)) : o \in {"add", "update"}, id \in Ids, nm \in {"b", "c"}}
             \cup {TsOp("remove", TsNode(id, "b")) : id \in Ids}

TsDeltas == UNION {[1..n -> TsOps] : n \in 0..MaxDeltaOps}

\* getMergedNodes lines 88-97: the delta the argument resolves to, if any
ResolvesToDelta(arg) == arg \in {"object", "name_d1"}

\* mutant: newNodes is this.graph.nodes itself, not a copy
StoreNodesAfterWrite_aliased(base, written) == written

\* GraphQuery.applyDelta line 1285: newNodes is a new Map copied from graph.nodes
StoreNodesAfterWrite(base, written) == base

\* mutant: add/update leave an id alone that the Map already holds
tsApplyOp_keepBase(m, op) ==
    IF op.operation \in {"add", "update"}
    THEN (IF op.node.id \in JsKeys(m) THEN m ELSE JsSet(m, op.node.id, op.node))
    ELSE JsDelete(m, op.node.id)

\* one iteration of the for loop of GraphQuery.applyDelta
tsApplyOp(m, op) ==
    IF op.operation \in {"add", "update"} THEN JsSet(m, op.node.id, op.node)
    ELSE JsDelete(m, op.node.id)

\* getMergedNodes without a delta: return this.getNodes()
GetMergedNodesBase ==
    /\ mvPc = "call"
    /\ ~ResolvesToDelta(intentArg)
    /\ mergedResult' = JsValues(storeNodes)
    /\ mvPc' = "returned"
    /\ UNCHANGED <<storeNodes, storeNodes0, pendingOps, intentArg, mvIdx, mvNewNodes>>
    /\ UNCHANGED MergedFrame

\* getMergedNodes with a delta: this.query.applyDelta(delta) starts from a copy of the base Map
GetMergedNodesBegin ==
    /\ mvPc = "call"
    /\ ResolvesToDelta(intentArg)
    /\ mvNewNodes' = storeNodes
    /\ mvIdx' = 1
    /\ mvPc' = "ops"
    /\ UNCHANGED <<storeNodes, storeNodes0, pendingOps, intentArg, mergedResult>>
    /\ UNCHANGED MergedFrame

MergedStep(m) ==
    /\ mvNewNodes' = m
    /\ storeNodes' = StoreNodesAfterWrite(storeNodes, m)
    /\ mvIdx' = mvIdx + 1
    /\ UNCHANGED <<storeNodes0, pendingOps, intentArg, mvPc, mergedResult>>
    /\ UNCHANGED MergedFrame

\* case 'add' / case 'update'
MergedSet ==
    /\ mvPc = "ops"
    /\ mvIdx <= Len(pendingOps)
    /\ pendingOps[mvIdx].operation \in {"add", "update"}
    /\ MergedStep(tsApplyOp(mvNewNodes, pendingOps[mvIdx]))

\* case 'remove'
MergedDelete ==
    /\ mvPc = "ops"
    /\ mvIdx <= Len(pendingOps)
    /\ pendingOps[mvIdx].operation = "remove"
    /\ MergedStep(tsApplyOp(mvNewNodes, pendingOps[mvIdx]))

\* return { nodes: newNodes }, then Array.from(mergedGraph.nodes.values())
MergedReturn ==
    /\ mvPc = "ops"
    /\ mvIdx > Len(pendingOps)
    /\ mergedResult' = JsValues(mvNewNodes)
    /\ mvPc' = "returned"
    /\ UNCHANGED <<storeNodes, storeNodes0, pendingOps, intentArg, mvIdx, mvNewNodes>>
    /\ UNCHANGED MergedFrame

MergedInit ==
    /\ storeNodes \in LoadedStores
    /\ storeNodes0 = storeNodes
    /\ pendingOps \in TsDeltas
    /\ intentArg \in {"undefined", "object", "name_d1", "name_dX"}
    /\ mvPc = "call"
    /\ mvIdx = 0
    /\ mvNewNodes = <<>>
    /\ mergedResult = <<>>

MergedIdle ==
    /\ storeNodes = <<>>
    /\ storeNodes0 = <<>>
    /\ pendingOps = <<>>
    /\ intentArg = "undefined"
    /\ mvPc = "idle"
    /\ mvIdx = 0
    /\ mvNewNodes = <<>>
    /\ mergedResult = <<>>

MergedNext ==
    \/ GetMergedNodesBase
    \/ GetMergedNodesBegin
    \/ MergedSet
    \/ MergedDelete
    \/ MergedReturn

(***************************************************************************)
(* The agent loop of the extension: AiAgentClient.chatWithTools, every     *)
(* backend call made through withRetry                                     *)
(***************************************************************************)
\* the history of the run: calls backend calls and sleeps more in the extension's loop,
\* gen backend calls more in the library's loop
Tally(calls, sleeps, gen) ==
    /\ backendCalls' = backendCalls + calls
    /\ waits' = waits + sleeps
    /\ genCalls' = genCalls + gen

TallyInit ==
    /\ backendCalls = 0
    /\ waits = 0
    /\ genCalls = 0

MAX_ITERATIONS == 10
MaxRetries == 3

ToolNames == {"get_node", "execute_code", "bogus_tool"}
\* function.arguments: a JSON text that parses, or one that does not
ToolArgs == {"ok", "malformed"}
ToolCall(id, name, args) == [id |-> id, name |-> name, args |-> args]
\* the i-th call of a response carries the id i
\* (malformed arguments are drawn for one tool only: JSON.parse fails before the name
\* of the tool is looked at)
ToolCalls(id) == {ToolCall(id, name, "ok") : name \in ToolNames} \cup {ToolCall(id, "get_node", "malformed")}
Batches == UNION {{b \in [1..n -> UNION {ToolCalls(i) : i \in 1..n}] : \A i \in 1..n : b[i].id = i} : n \in 0..MaxBatch}

Contents == {"null", "delta", "garbage"}
NoToolCalls == [present |-> FALSE, calls |-> <<>>]
SomeToolCalls(b) == [present |-> TRUE, calls |-> b]
Message(tc, content) == [tool_calls |-> tc, content |-> content]
\* a response that requests tools carries no content; one with an absent or an empty
\* tool_calls carries any
Responses ==
    {Message(tc, c) : tc \in {NoToolCalls, SomeToolCalls(<<>>)}, c \in Contents}
        \cup {Message(SomeToolCalls(b), "null") : b \in Batches \ {<<>>}}
\* the value response holds before the backend has answered
NoResponse == Message(NoToolCalls, "none")

\* while (response.choices[0].message.tool_calls): an array, even an empty one, is truthy
JsTruthy(tc) == tc.present

\* mutant: the cap is never found exceeded
LimitExceeded_never(it) == FALSE

\* if (iteration > MAX_ITERATIONS)
LimitExceeded(it) == it > MAX_ITERATIONS

AssistantMessage(r) == [role |-> "assistant", tool_calls |-> r.tool_calls.calls, tool_call_id |-> 0, content |-> r.content]

\* mutant: the message pushed in the catch block carries no call id
ToolMessage_noIdOnError(call, content) ==
    [role |-> "tool", tool_calls |-> <<>>, tool_call_id |-> IF content = "error" THEN 0 ELSE call.id, content |-> content]

\* messages.push({ role: 'tool', tool_call_id: toolCall.id, content })
ToolMessage(call, content) ==
    [role |-> "tool", tool_calls |-> <<>>, tool_call_id |-> call.id, content |-> content]

\* mutant: a rejected toolHandler promise is not caught
CatchesToolFault_notHandler(fault) == fault # "handler_throws"

\* try { JSON.parse; await toolHandler } catch (error) { push {error} }
CatchesToolFault(fault) == TRUE

\* extractRetryAfter: the hint of a 429 error message, if it has one
RetryHints == {"none", "0", "7"}
extractRetryAfter(hint) == IF hint = "none" THEN 0 ELSE IF hint = "0" THEN 60 ELSE 7
RECURSIVE Pow2(_)
Pow2(n) == IF n = 0 THEN 1 ELSE 2 * Pow2(n - 1)
\* mutant: the hint is not consulted
WaitSeconds_backoffOnly(hint, att) == Pow2(att) * 20

\* retryAfter || Math.pow(2, attempt) * 20
WaitSeconds(hint, att) == IF hint # "none" THEN extractRetryAfter(hint) ELSE Pow2(att) * 20

\* the backend answers with tool_calls: iteration++, the cap check, messages.push(assistant)
ChatResponseToolCalls ==
    /\ chatPc = "call"
    /\ \E r \in Responses :
        /\ JsTruthy(r.tool_calls)
        /\ response' = r
        /\ iteration' = iteration + 1
        /\ attempt' = 0
        /\ lastWait' = 0 /\ lastHint' = "none"
        /\ lastError' = "none"
        /\ IF LimitExceeded(iteration + 1)
           THEN /\ chatPc' = "thrown"
                /\ chatErr' = "iteration_limit"
                /\ UNCHANGED <<chatTail, toolIdx, roundsRun>>
           ELSE /\ chatPc' = "tools"
                /\ chatTail' = <<AssistantMessage(r)>>
                /\ toolIdx' = 1
                /\ roundsRun' = roundsRun + 1
                /\ UNCHANGED chatErr
    /\ UNCHANGED chatContent
    /\ UNCHANGED ChatFrame
    /\ Tally(1, 0, 0)

\* the backend answers without tool_calls: return response.choices[0].message.content || ''
ChatResponseFinal ==
    /\ chatPc = "call"
    /\ \E r \in Responses :
        /\ ~JsTruthy(r.tool_calls)
        /\ response' = r
        /\ chatContent' = IF r.content = "null" THEN "" ELSE r.content
    /\ chatPc' = "returned"
    /\ attempt' = 0
    /\ lastWait' = 0 /\ lastHint' = "none"
    /\ lastError' = "none"
    /\ UNCHANGED <<iteration, chatTail, toolIdx, roundsRun, chatErr>>
    /\ UNCHANGED ChatFrame
    /\ Tally(1, 0, 0)

\* error.status of what fn() rejects with; "undefined" for an error without a status
ErrorStatuses == {"429", "500", "undefined"}

\* mutant: every backend error is taken for a rate limit
IsRateLimit_any(status) == TRUE

\* if (error?.status === 429)
IsRateLimit(status) == status = "429"

\* mutant: the for loop of withRetry never ends
RetriesRemain_always(att) == TRUE

\* for (...; attempt < maxRetries; ...)
RetriesRemain(att) == att < MaxRetries

\* the kind of failure the caller of chatWithTools sees when the error is thrown
ThrownAs(status) == IF status = "429" THEN "rate_limit" ELSE "backend_error"

\* withRetry: error.status === 429, the wait is computed and the sleep starts
ChatRateLimited ==
    /\ chatPc = "call"
    /\ \E status \in ErrorStatuses :
        /\ IsRateLimit(status)
        /\ lastError' = status
    /\ \E h \in RetryHints : lastHint' = h /\ lastWait' = WaitSeconds(h, attempt)
    /\ chatPc' = "sleep"
    /\ UNCHANGED <<iteration, attempt, response, chatTail, toolIdx, roundsRun, chatErr, chatContent>>
    /\ UNCHANGED ChatFrame
    /\ Tally(1, 1, 0)

\* mutant: the retry loop never advances its counter
NextAttempt_stuck(att) == att

\* for (...; ...; attempt++)
NextAttempt(att) == att + 1

\* (attempt, waitSeconds and lastError are locals of withRetry: they are reset once it returns)
\* withRetry: the sleep ends; continue, then either the next attempt or throw lastError
ChatSleepDone ==
    /\ chatPc = "sleep"
    /\ attempt' = NextAttempt(attempt)
    /\ IF RetriesRemain(NextAttempt(attempt))
       THEN chatPc' = "call" /\ UNCHANGED chatErr
       ELSE chatPc' = "thrown" /\ chatErr' = ThrownAs(lastError)
    /\ UNCHANGED <<iteration, lastWait, lastHint, lastError, response, chatTail, toolIdx, roundsRun, chatContent>>
    /\ UNCHANGED ChatFrame
    /\ Tally(0, 0, 0)

\* withRetry: any other error is thrown at once
ChatBackendFails ==
    /\ chatPc = "call"
    /\ \E status \in ErrorStatuses :
        /\ ~IsRateLimit(status)
        /\ lastError' = status
        /\ chatErr' = ThrownAs(status)
    /\ chatPc' = "thrown"
    /\ UNCHANGED <<iteration, attempt, lastWait, lastHint, response, chatTail, toolIdx, roundsRun, chatContent>>
    /\ UNCHANGED ChatFrame
    /\ Tally(1, 0, 0)

CurrentCall == response.tool_calls.calls[toolIdx]
InToolLoop == chatPc = "tools" /\ toolIdx <= Len(response.tool_calls.calls)

PushToolMessage(content) ==
    /\ chatTail' = Append(chatTail, ToolMessage(CurrentCall, content))
    /\ toolIdx' = toolIdx + 1
    /\ UNCHANGED <<chatPc, iteration, attempt, lastWait, lastHint, lastError, response, roundsRun, chatErr, chatContent>>
    /\ UNCHANGED ChatFrame

\* the arguments parse and the handler resolves with a result
ChatToolResult ==
    /\ InToolLoop
    /\ CurrentCall.args = "ok"
    /\ CurrentCall.name # "bogus_tool"
    /\ PushToolMessage("result")
    /\ Tally(0, 0, 0)

\* the handler resolves with an {error} object: AiAgentTools.executeTool on an unknown
\* tool name, executeCode on a script fault, a timeout or a path outside the workspace
ChatToolErrorResult ==
    /\ InToolLoop
    /\ CurrentCall.args = "ok"
    /\ \E fault \in {"unknown_tool", "script_fault", "access_denied"} :
        /\ (fault = "unknown_tool") <=> (CurrentCall.name = "bogus_tool")
        /\ (fault # "unknown_tool") => (CurrentCall.name = "execute_code")
    /\ PushToolMessage("error")
    /\ Tally(0, 0, 0)

\* JSON.parse throws on the arguments, or the handler rejects: the catch block
ChatToolThrows ==
    /\ InToolLoop
    /\ \E fault \in {"bad_json", "handler_throws"} :
        /\ (fault = "bad_json") <=> (CurrentCall.args = "malformed")
        /\ (fault = "handler_throws") => (CurrentCall.name # "bogus_tool")
        /\ IF CatchesToolFault(fault)
           THEN PushToolMessage("error")
           ELSE /\ chatPc' = "thrown"
                /\ chatErr' = "tool_fault"
                /\ UNCHANGED <<iteration, attempt, lastWait, lastHint, lastError, response, chatTail, toolIdx, roundsRun, chatContent>>
                /\ UNCHANGED ChatFrame
    /\ Tally(0, 0, 0)

\* the for loop is over: the next backend call, through a fresh withRetry
ChatToolsDone ==
    /\ chatPc = "tools"
    /\ toolIdx > Len(response.tool_calls.calls)
    /\ chatPc' = "call"
    /\ UNCHANGED <<iteration, attempt, lastWait, lastHint, lastError, response, chatTail, toolIdx, roundsRun, chatErr, chatContent>>
    /\ UNCHANGED ChatFrame
    /\ Tally(0, 0, 0)

\* chatWithTools is entered: messages holds the system and the user message, the
\* initial request is about to be made
ChatInit ==
    /\ chatPc = "call"
    /\ iteration = 0
    /\ attempt = 0
    /\ lastWait = 0
    /\ lastHint = "none"
    /\ lastError = "none"
    /\ response = NoResponse
    /\ chatTail = <<>>
    /\ toolIdx = 0
    /\ roundsRun = 0
    /\ chatErr = "none"
    /\ chatContent = ""

ChatIdle ==
    /\ chatPc = "idle"
    /\ iteration = 0
    /\ attempt = 0
    /\ lastWait = 0
    /\ lastHint = "none"
    /\ lastError = "none"
    /\ response = NoResponse
    /\ chatTail = <<>>
    /\ toolIdx = 0
    /\ roundsRun = 0
    /\ chatErr = "none"
    /\ chatContent = ""

ChatNext ==
    \/ ChatResponseToolCalls
    \/ ChatResponseFinal
    \/ ChatRateLimited
    \/ ChatSleepDone
    \/ ChatBackendFails
    \/ ChatToolResult
    \/ ChatToolErrorResult
    \/ ChatToolThrows
    \/ ChatToolsDone

(***************************************************************************)
(* The agent loop of the library: IntentGraphLibrary.generateDelta         *)
(***************************************************************************)
MAX_TOOL_TURNS == 8

\* what chatClient.complete returns: null, a message of another role, or an assistant
\* message whose toolCalls is null (not present) or a list
Completions ==
    {[kind |-> k, msg |-> NoResponse] : k \in {"null", "other_role"}}
        \cup {[kind |-> "assistant", msg |-> r] : r \in Responses}
NoCompletion == [kind |-> "null", msg |-> NoResponse]

\* toolCalls != null && !toolCalls.isEmpty()
HasToolCalls(tc) == tc.present /\ Len(tc.calls) > 0

\* ChatMessage.tool(call.name(), call.id(), toolOutput)
JavaToolMessage(call, output) ==
    [role |-> "tool", tool_calls |-> <<>>, tool_call_id |-> call.id, content |-> output]

\* executeTool: the switch on call.name(), its default branch, and the catch of what a
\* tool method throws on a missing argument
executeTool(call) ==
    IF call.name # "get_node" THEN "error"
    ELSE IF call.args = "malformed" THEN "error"
    ELSE "result"

\* parseDeltaFromAI: mapper.readValue succeeds or the RuntimeException
ParsesAsDelta(content) == content = "delta"

\* content == null || content.isBlank()
IsBlank(content) == content = "null"

\* complete() returned null or a message that is not of the ASSISTANT role
GenBadCompletion ==
    /\ genPc = "call"
    /\ \E c \in Completions :
        /\ c.kind # "assistant"
        /\ assistant' = c
        /\ genErr' = IF c.kind = "null" THEN "null_message" ELSE "not_assistant"
    /\ genPc' = "thrown"
    /\ UNCHANGED <<turn, genTail, genIdx, genRounds, genResult>>
    /\ UNCHANGED GenFrame
    /\ Tally(0, 0, 1)

\* complete() throws: generateDelta has no handler around it
GenClientThrows ==
    /\ genPc = "call"
    /\ genPc' = "thrown"
    /\ genErr' = "client_error"
    /\ UNCHANGED <<turn, assistant, genTail, genIdx, genRounds, genResult>>
    /\ UNCHANGED GenFrame
    /\ Tally(0, 0, 1)

\* an assistant message with tool calls: messages.add(assistant), the for loop starts
GenToolCalls ==
    /\ genPc = "call"
    /\ \E c \in Completions :
        /\ c.kind = "assistant"
        /\ HasToolCalls(c.msg.tool_calls)
        /\ assistant' = c
        /\ genTail' = <<AssistantMessage(c.msg)>>
    /\ genPc' = "tools"
    /\ genIdx' = 1
    /\ genRounds' = genRounds + 1
    /\ UNCHANGED <<turn, genErr, genResult>>
    /\ UNCHANGED GenFrame
    /\ Tally(0, 0, 1)

\* an assistant message without tool calls: messages.add(assistant), then the blank
\* check and return parseDeltaFromAI(content)
GenFinal ==
    /\ genPc = "call"
    /\ \E c \in Completions :
        /\ c.kind = "assistant"
        /\ ~HasToolCalls(c.msg.tool_calls)
        /\ assistant' = c
        /\ genTail' = <<AssistantMessage(c.msg)>>
        /\ IF IsBlank(c.msg.content)
           THEN genPc' = "thrown" /\ genErr' = "no_content" /\ UNCHANGED genResult
           ELSE IF ParsesAsDelta(c.msg.content)
           THEN genPc' = "returned" /\ genResult' = c.msg.content /\ UNCHANGED genErr
           ELSE genPc' = "thrown" /\ genErr' = "parse_error" /\ UNCHANGED genResult
    /\ UNCHANGED <<turn, genIdx, genRounds>>
    /\ UNCHANGED GenFrame
    /\ Tally(0, 0, 1)

\* one pass of for (ToolCall call : toolCalls)
GenTool ==
    /\ genPc = "tools"
    /\ genIdx <= Len(assistant.msg.tool_calls.calls)
    /\ LET call == assistant.msg.tool_calls.calls[genIdx]
       IN  genTail' = Append(genTail, JavaToolMessage(call, executeTool(call)))
    /\ genIdx' = genIdx + 1
    /\ UNCHANGED <<genPc, turn, assistant, genRounds, genErr, genResult>>
    /\ UNCHANGED GenFrame
    /\ Tally(0, 0, 0)

\* continue: turn++, then turn < MAX_TOOL_TURNS or the throw after the loop
GenContinue ==
    /\ genPc = "tools"
    /\ genIdx > Len(assistant.msg.tool_calls.calls)
    /\ turn' = turn + 1
    /\ IF turn + 1 < MAX_TOOL_TURNS
       THEN genPc' = "call" /\ UNCHANGED genErr
       ELSE genPc' = "thrown" /\ genErr' = "max_tool_turns"
    /\ UNCHANGED <<assistant, genTail, genIdx, genRounds, genResult>>
    /\ UNCHANGED GenFrame
    /\ Tally(0, 0, 0)

GenFields ==
    /\ turn = 0
    /\ assistant = NoCompletion
    /\ genTail = <<>>
    /\ genIdx = 0
    /\ genRounds = 0
    /\ genErr = "none"
    /\ genResult = ""

\* generateDelta is entered: messages holds the system and the user message
GenInit == genPc = "call" /\ GenFields

GenIdle == genPc = "idle" /\ GenFields

GenNext ==
    \/ GenBadCompletion
    \/ GenClientThrows
    \/ GenToolCalls
    \/ GenFinal
    \/ GenTool
    \/ GenContinue

(***************************************************************************)
(* Pure functions, each applied once to arguments drawn from a bounded set *)
(***************************************************************************)
NoArgs == <<>>
NoReturn == [kind |-> "none"]

QueryIdle ==
    /\ qFn = "none"
    /\ qArgs = NoArgs
    /\ qPc = "idle"
    /\ qResult = NoReturn

\* the call of fn on args is about to run
Called(fn, argSet) ==
    /\ qFn = fn
    /\ qArgs \in argSet
    /\ qPc = "call"
    /\ qResult = NoReturn

\* fn runs to its end and leaves result
Returns(fn, result) ==
    /\ qFn = fn
    /\ qPc = "call"
    /\ qPc' = "done"
    /\ qResult' = result
    /\ UNCHANGED <<qFn, qArgs>>
    /\ UNCHANGED QueryFrame

(***************************************************************************)
(* PlanningAgent.parseIntentFromResponse and parseDeltaFromAI              *)
(***************************************************************************)
\* what a final content is to the parsers: whether the whole text is a document with
\* the Delta structure, a well-formed document of another structure or neither, and
\* the same for its first ```json and first ```yaml fenced block, if it has one
Structures == {"delta", "other", "malformed"}
FinalContents == [whole : Structures, jsonBlock : {"none"} \cup Structures, yamlBlock : {"none"} \cup Structures]

Parsed(structure) == [kind |-> "value", structure |-> structure]
ReturnsNull == [kind |-> "null"]
Throws(error, raw) == [kind |-> "thrown", error |-> error, raw |-> raw]

\* content.match finds the block and JSON.parse / yaml.load of it does not throw
BlockParses(block) == block \in {"delta", "other"}

\* JSON.parse(content) as GraphDelta, then the ```json block, then the ```yaml block;
\* the casts check nothing, so what parses is returned whatever its structure
parseIntentFromResponse(content) ==
    IF content.whole # "malformed" THEN Parsed(content.whole)
    ELSE IF BlockParses(content.jsonBlock) THEN Parsed(content.jsonBlock)
    ELSE IF content.yamlBlock # "none"
         THEN IF BlockParses(content.yamlBlock) THEN Parsed(content.yamlBlock) ELSE ReturnsNull
    ELSE ReturnsNull

\* mapper.readValue(aiOutput, IntentGraphDelta.class): the whole text only; an
\* IOException becomes a RuntimeException whose message is the mapper's
parseDeltaFromAI(content) ==
    IF content.whole = "delta" THEN Parsed("delta")
    ELSE Throws("parse_error", FALSE)

ParseTs ==
    /\ qFn = "parseIntentFromResponse"
    /\ Returns("parseIntentFromResponse", parseIntentFromResponse(qArgs))

ParseJava ==
    /\ qFn = "parseDeltaFromAI"
    /\ Returns("parseDeltaFromAI", parseDeltaFromAI(qArgs))

ParseInit ==
    \/ Called("parseIntentFromResponse", FinalContents)
    \/ Called("parseDeltaFromAI", FinalContents)

ParseNext == ParseTs \/ ParseJava

(***************************************************************************)
(* PlanningAgent.generateIntention: the run of chatWithTools, the parse of *)
(* its content, and the catch of whatever it throws                        *)
(***************************************************************************)
\* the content chatWithTools returned, as the parser sees it: the delta document, or
\* a text (the empty one included) that is no document and has no fenced block
AsFinalContent(content) ==
    [whole |-> IF content = "delta" THEN "delta" ELSE "malformed", jsonBlock |-> "none", yamlBlock |-> "none"]

\* const intent = this.parseIntentFromResponse(content); ... return intent
PlanParse ==
    /\ planPc = "running"
    /\ chatPc = "returned"
    /\ planResult' = parseIntentFromResponse(AsFinalContent(chatContent))
    /\ planPc' = "done"
    /\ UNCHANGED PlanFrame

\* catch (error) { ...; showErrorMessage; return null }
PlanCatch ==
    /\ planPc = "running"
    /\ chatPc = "thrown"
    /\ planResult' = ReturnsNull
    /\ planPc' = "done"
    /\ UNCHANGED PlanFrame

PlanInit == planPc = "running" /\ planResult = NoReturn

PlanIdle == planPc = "idle" /\ planResult = NoReturn

PlanNext == PlanParse \/ PlanCatch

(***************************************************************************)
(* Review of pending deltas: IntentGraphViewModel of the IDEA plugin       *)
(* (sendPrompt, the delta dropdown, implementSelectedDelta,                *)
(* discardSelectedDelta) and the intentGraph.* commands of the extension   *)
(* over GraphStore (new intention, selectIntent, implement, discard).      *)
(* Deltas are numbered in the order they are generated.                    *)
(***************************************************************************)
Ides == {"idea", "vscode"}
DeltaIds == 1..MaxDeltas
NoneSelected == 0

\* deltas = deltas + newDelta (Kotlin) / saveIntent then refresh (TS)
WithDelta(pending, d) == pending \cup {d}

\* implementSelectedDelta leaves deltas as it is
PendingAfterImplement(pending, d) == pending

\* 'Merge Intent Now': graphStore.deleteIntent(name), then refresh reloads the intents
PendingAfterMergeNow(pending, d) == pending \ {d}

\* sendPrompt: generateDelta, deltas = deltas + newDelta, selectedDelta = newDelta
IdeaSendPrompt ==
    /\ rvIde = "idea"
    /\ rvGenerated < MaxDeltas
    /\ rvGenerated' = rvGenerated + 1
    /\ rvDeltas' = WithDelta(rvDeltas, rvGenerated + 1)
    /\ rvSelected' = rvGenerated + 1
    /\ UNCHANGED <<rvIde, rvMerged, rvDialog>>
    /\ UNCHANGED ReviewFrame

\* the dropdown over viewModel.deltas: selectedDelta = delta
IdeaSelectDelta ==
    /\ rvIde = "idea"
    /\ \E d \in rvDeltas :
        /\ d # rvSelected
        /\ rvSelected' = d
    /\ UNCHANGED <<rvIde, rvDeltas, rvMerged, rvGenerated, rvDialog>>
    /\ UNCHANGED ReviewFrame

\* implementSelectedDelta: writeDelta, prefill, loadProjectGraph, selectedDelta = null;
\* when writeDelta throws, the exception leaves the function before anything is assigned
IdeaImplementSelectedDelta ==
    /\ rvIde = "idea"
    /\ rvSelected # NoneSelected
    /\ rvMerged[rvSelected] < MaxMerges
    /\ \E written \in BOOLEAN :
        IF written
        THEN /\ rvMerged' = [rvMerged EXCEPT ![rvSelected] = @ + 1]
             /\ rvDeltas' = PendingAfterImplement(rvDeltas, rvSelected)
             /\ rvSelected' = NoneSelected
        ELSE UNCHANGED <<rvMerged, rvDeltas, rvSelected>>
    /\ UNCHANGED <<rvIde, rvGenerated, rvDialog>>
    /\ UNCHANGED ReviewFrame

\* discardSelectedDelta: deltas = deltas - delta, selectedDelta = null
IdeaDiscardSelectedDelta ==
    /\ rvIde = "idea"
    /\ rvSelected # NoneSelected
    /\ rvDeltas' = rvDeltas \ {rvSelected}
    /\ rvSelected' = NoneSelected
    /\ UNCHANGED <<rvIde, rvMerged, rvGenerated, rvDialog>>
    /\ UNCHANGED ReviewFrame

\* intentGraph.newIntention: generateIntention, saveIntent, selectIntent
CodeNewIntention ==
    /\ rvIde = "vscode"
    /\ rvGenerated < MaxDeltas
    /\ rvGenerated' = rvGenerated + 1
    /\ rvDeltas' = WithDelta(rvDeltas, rvGenerated + 1)
    /\ rvSelected' = rvGenerated + 1
    /\ UNCHANGED <<rvIde, rvMerged, rvDialog>>
    /\ UNCHANGED ReviewFrame

\* intentGraph.selectIntent from the intents tree
CodeSelectIntent ==
    /\ rvIde = "vscode"
    /\ \E d \in rvDeltas :
        /\ d # rvSelected
        /\ rvSelected' = d
    /\ UNCHANGED <<rvIde, rvDeltas, rvMerged, rvGenerated, rvDialog>>
    /\ UNCHANGED ReviewFrame

\* intentGraph.implement up to its await: the selected intent is read, the dialog shown
CodeImplement ==
    /\ rvIde = "vscode"
    /\ rvSelected # NoneSelected
    /\ rvDialog = NoneSelected
    /\ rvDialog' = rvSelected
    /\ UNCHANGED <<rvIde, rvDeltas, rvSelected, rvMerged, rvGenerated>>
    /\ UNCHANGED ReviewFrame

\* the dialog is answered: 'Merge Intent Now' deletes the intent read before the await
\* and clears the selection; any other answer changes nothing in the store
CodeDialogAnswered ==
    /\ rvIde = "vscode"
    /\ rvDialog # NoneSelected
    /\ rvMerged[rvDialog] < MaxMerges
    /\ rvDialog' = NoneSelected
    /\ \E action \in {"Merge Intent Now", "Open Chat"} :
        IF action = "Merge Intent Now"
        THEN /\ rvMerged' = [rvMerged EXCEPT ![rvDialog] = @ + 1]
             /\ rvDeltas' = PendingAfterMergeNow(rvDeltas, rvDialog)
             /\ rvSelected' = NoneSelected
        ELSE UNCHANGED <<rvMerged, rvDeltas, rvSelected>>
    /\ UNCHANGED <<rvIde, rvGenerated>>
    /\ UNCHANGED ReviewFrame

\* intentGraph.discard, confirmed: deleteIntent of the selected intent, selectIntent(null)
CodeDiscard ==
    /\ rvIde = "vscode"
    /\ rvSelected # NoneSelected
    /\ rvDeltas' = rvDeltas \ {rvSelected}
    /\ rvSelected' = NoneSelected
    /\ UNCHANGED <<rvIde, rvMerged, rvGenerated, rvDialog>>
    /\ UNCHANGED ReviewFrame

ReviewFields ==
    /\ rvDeltas = {}
    /\ rvSelected = NoneSelected
    /\ rvMerged = [d \in DeltaIds |-> 0]
    /\ rvGenerated = 0
    /\ rvDialog = NoneSelected

ReviewInit ==
    /\ rvIde \in Ides
    /\ ReviewFields

ReviewIdle ==
    /\ rvIde = "none"
    /\ ReviewFields

ReviewNext ==
    \/ IdeaSendPrompt
    \/ IdeaSelectDelta
    \/ IdeaImplementSelectedDelta
    \/ IdeaDiscardSelectedDelta
    \/ CodeNewIntention
    \/ CodeSelectIntent
    \/ CodeImplement
    \/ CodeDialogAnswered
    \/ CodeDiscard

(***************************************************************************)
(* execute_code: one call of executeCode (AiAgentTools), executeCodeAsync  *)
(* (AiAgentTools) or PlanningAgent.executeCode (MCPServer), running one    *)
(* script statement by statement. A path is its sequence of segments.      *)
(***************************************************************************)
Variants == {"executeCode", "executeCodeAsync", "planningExecuteCode"}

\* vm.runInContext(wrappedCode, context, { timeout: 5000 })
TIMEOUT_MS == 5000

\* vscode.workspace.workspaceFolders: the declared roots
DeclaredFolders == <<(<<"ws">>)>>
\* the paths a script passes to the sandboxed fs, and the folders it may push
ScriptPaths == {<<"ws">>, <<"ws", "a">>, <<"ws", "..", "etc", "passwd">>, <<"etc", "passwd">>}
ScriptFolders == {<<"etc">>}
\* milliseconds a stretch of script code takes
Durations == {1000, 3000}
\* where YamlLoader.saveIntent / deleteIntent put the file of an intent
IntentFile == <<"ws", ".intent-graph", "intents", "d.yaml">>

\* path.resolve(targetPath): every ".." removes the segment before it
RECURSIVE resolveInto(_, _)
resolveInto(acc, p) ==
    IF p = <<>> THEN acc
    ELSE IF Head(p) = ".."
         THEN resolveInto(IF acc = <<>> THEN acc ELSE SubSeq(acc, 1, Len(acc) - 1), Tail(p))
         ELSE resolveInto(Append(acc, Head(p)), Tail(p))
resolve(p) == resolveInto(<<>>, p)

\* resolved.startsWith(folder + path.sep) || resolved === folder
UnderFolder(resolved, folder) ==
    /\ Len(folder) <= Len(resolved)
    /\ SubSeq(resolved, 1, Len(folder)) = folder

\* workspaceFolders.some(folder => ...), over the array as it is when the check runs
isPathAllowed(targetPath, folders) ==
    \E i \in 1..Len(folders) : UnderFolder(resolve(targetPath), folders[i])

NoOutcome == [kind |-> "none"]
ValueResult(v) == [kind |-> "value", value |-> v]
ErrorResult(m) == [kind |-> "error", message |-> m]

\* the script has the thread: between statements, not yet ended
ScriptRuns == sbPc = "running" /\ sbSteps < MaxScriptSteps

\* the synchronous part of the script is the one vm's timeout watches
HasAsyncWrapper == sbVariant \in {"executeCodeAsync", "planningExecuteCode"}

\* a thrown value leaves the script: runInContext (or the awaited promise) throws it, and
\* catch (error: any) returns { error: error.message }; reading .message of null throws
\* out of the catch block
Propagates(thrown, message) ==
    IF thrown = "null"
    THEN /\ sbPc' = "faulted"
         /\ sbResult' = NoOutcome
    ELSE /\ sbPc' = "returned"
         /\ sbResult' = ErrorResult(message)

\* a sandboxedFs method throws message: the script's own try/catch swallows it, or it propagates
ThrowsInScript(message) ==
    \E caught \in BOOLEAN :
        IF caught
        THEN /\ sbPc' = sbPc
             /\ sbResult' = sbResult
             /\ sbLast' = "caught"
        ELSE /\ Propagates("Error", message)
             /\ sbLast' = sbLast

\* the shape shared by readFileSync, readdirSync and statSync: throw outside the folders,
\* else the call of the real fs, which returns or throws on its own account
CheckedCall(effect, value) ==
    /\ ScriptRuns
    /\ sbSteps' = sbSteps + 1
    /\ \E p \in ScriptPaths :
        /\ sbOutside' = (sbOutside \/ ~isPathAllowed(p, DeclaredFolders))
        /\ IF ~isPathAllowed(p, workspaceFolders)
           THEN /\ ThrowsInScript("Access denied")
                /\ sbEffects' = sbEffects
           ELSE /\ sbEffects' = sbEffects \cup {<<effect, resolve(p)>>}
                /\ \/ /\ sbLast' = value
                      /\ UNCHANGED <<sbPc, sbResult>>
                   \/ ThrowsInScript("ENOENT")
    /\ UNCHANGED <<sbVariant, sbPhase, workspaceFolders, sbElapsed>>
    /\ UNCHANGED SandboxFrame

ScriptReadFileSync ==
    /\ sbPc = "running"
    /\ CheckedCall("read", "content")
ScriptReaddirSync ==
    /\ sbPc = "running"
    /\ CheckedCall("list", "listing")
ScriptStatSync ==
    /\ sbPc = "running"
    /\ CheckedCall("stat", "stats")

\* existsSync: false outside the folders, no throw
ScriptExistsSync ==
    /\ ScriptRuns
    /\ sbSteps' = sbSteps + 1
    /\ \E p \in ScriptPaths :
        /\ sbOutside' = (sbOutside \/ ~isPathAllowed(p, DeclaredFolders))
        /\ IF ~isPathAllowed(p, workspaceFolders)
           THEN /\ sbLast' = "false"
                /\ sbEffects' = sbEffects
           ELSE /\ sbEffects' = sbEffects \cup {<<"exists", resolve(p)>>}
                /\ sbLast' \in {"true", "false"}
    /\ UNCHANGED <<sbVariant, sbPc, sbPhase, workspaceFolders, sbElapsed, sbResult>>
    /\ UNCHANGED SandboxFrame

\* readFile: outside the folders the error goes to the callback and undefined is returned
ScriptReadFile ==
    /\ ScriptRuns
    /\ sbSteps' = sbSteps + 1
    /\ \E p \in ScriptPaths :
        /\ sbOutside' = (sbOutside \/ ~isPathAllowed(p, DeclaredFolders))
        /\ sbEffects' = IF isPathAllowed(p, workspaceFolders)
                        THEN sbEffects \cup {<<"read", resolve(p)>>}
                        ELSE sbEffects
    /\ sbLast' = "undefined"
    /\ UNCHANGED <<sbVariant, sbPc, sbPhase, workspaceFolders, sbElapsed, sbResult>>
    /\ UNCHANGED SandboxFrame

\* workspaceFolders.push(folder): the array in the context is the one isPathAllowed reads
ScriptPushFolder ==
    /\ ScriptRuns
    /\ sbSteps' = sbSteps + 1
    /\ \E f \in ScriptFolders :
        /\ \A i \in 1..Len(workspaceFolders) : workspaceFolders[i] # f
        /\ workspaceFolders' = Append(workspaceFolders, f)
    /\ sbLast' = "undefined"
    /\ UNCHANGED <<sbVariant, sbPc, sbPhase, sbElapsed, sbEffects, sbResult, sbOutside>>
    /\ UNCHANGED SandboxFrame

\* store.saveIntent(intent) -> YamlLoader.saveIntent: mkdirSync, writeFileSync
ScriptStoreSaveIntent ==
    /\ ScriptRuns
    /\ sbVariant = "planningExecuteCode"
    /\ sbSteps' = sbSteps + 1
    /\ sbEffects' = sbEffects \cup {<<"write", IntentFile>>}
    /\ sbLast' = "undefined"
    /\ UNCHANGED <<sbVariant, sbPc, sbPhase, workspaceFolders, sbElapsed, sbResult, sbOutside>>
    /\ UNCHANGED SandboxFrame

\* store.deleteIntent(name) -> YamlLoader.deleteIntent: unlinkSync
ScriptStoreDeleteIntent ==
    /\ ScriptRuns
    /\ sbVariant = "planningExecuteCode"
    /\ sbSteps' = sbSteps + 1
    /\ sbEffects' = sbEffects \cup {<<"delete", IntentFile>>}
    /\ sbLast' = "undefined"
    /\ UNCHANGED <<sbVariant, sbPc, sbPhase, workspaceFolders, sbElapsed, sbResult, sbOutside>>
    /\ UNCHANGED SandboxFrame

\* a stretch of computation; vm's timeout ends the synchronous part at TIMEOUT_MS
ScriptSpins ==
    /\ ScriptRuns
    /\ sbSteps' = sbSteps + 1
    /\ \E d \in Durations :
        IF sbPhase = "sync" /\ sbElapsed + d >= TIMEOUT_MS
        THEN /\ sbElapsed' = TIMEOUT_MS
             /\ Propagates("Error", "Script execution timed out")
        ELSE /\ sbElapsed' = sbElapsed + d
             /\ UNCHANGED <<sbPc, sbResult>>
    /\ UNCHANGED <<sbVariant, sbPhase, workspaceFolders, sbEffects, sbLast, sbOutside>>
    /\ UNCHANGED SandboxFrame

\* throw new Error(...) / a TypeError of the script / throw null
ScriptThrows ==
    /\ sbPc = "running"
    /\ \E thrown \in {"Error", "null"} : Propagates(thrown, "runtime")
    /\ UNCHANGED <<sbVariant, sbPhase, workspaceFolders, sbElapsed, sbEffects, sbSteps, sbLast, sbOutside>>
    /\ UNCHANGED SandboxFrame

\* the first await of the async wrapper that settles: runInContext has returned,
\* the rest of the script runs from the event loop
ScriptAwaits ==
    /\ ScriptRuns
    /\ HasAsyncWrapper
    /\ sbPhase = "sync"
    /\ sbPhase' = "async"
    /\ sbSteps' = sbSteps + 1
    /\ UNCHANGED <<sbVariant, sbPc, workspaceFolders, sbElapsed, sbEffects, sbResult, sbLast, sbOutside>>
    /\ UNCHANGED SandboxFrame

\* await of a promise that never settles: await context.result never resumes
ScriptAwaitsForever ==
    /\ sbPc = "running"
    /\ HasAsyncWrapper
    /\ sbPc' = "awaiting"
    /\ sbPhase' = "async"
    /\ UNCHANGED <<sbVariant, workspaceFolders, sbElapsed, sbEffects, sbResult, sbSteps, sbLast, sbOutside>>
    /\ UNCHANGED SandboxFrame

\* return of the wrapped function: context.result is what executeCode returns
ScriptReturns ==
    /\ sbPc = "running"
    /\ sbPc' = "returned"
    /\ sbResult' \in {ValueResult(sbLast), ValueResult("undefined")}
    /\ UNCHANGED <<sbVariant, sbPhase, workspaceFolders, sbElapsed, sbEffects, sbSteps, sbLast, sbOutside>>
    /\ UNCHANGED SandboxFrame

SandboxFields ==
    /\ sbPhase = "sync"
    /\ sbElapsed = 0
    /\ sbEffects = {}
    /\ sbResult = NoOutcome
    /\ sbSteps = 0
    /\ sbLast = "undefined"
    /\ sbOutside = FALSE

SandboxInit ==
    /\ sbVariant \in Variants
    /\ sbPc = "running"
    /\ workspaceFolders = DeclaredFolders
    /\ SandboxFields

SandboxIdle ==
    /\ sbVariant = "none"
    /\ sbPc = "idle"
    /\ workspaceFolders = <<>>
    /\ SandboxFields

SandboxNext ==
    \/ ScriptReadFileSync
    \/ ScriptReaddirSync
    \/ ScriptStatSync
    \/ ScriptExistsSync
    \/ ScriptReadFile
    \/ ScriptPushFolder
    \/ ScriptStoreSaveIntent
    \/ ScriptStoreDeleteIntent
    \/ ScriptSpins
    \/ ScriptThrows
    \/ ScriptAwaits
    \/ ScriptAwaitsForever
    \/ ScriptReturns

(***************************************************************************)
(* PlanningAgent.spawnSubAgent: spawn requests on one PlanningAgent, made  *)
(* by its own run, by its sub-agents' runs and by concurrent runs; each    *)
(* runs to its first await in one step of the event loop                   *)
(***************************************************************************)
MAX_SUB_AGENTS == 5

\* mutant: the limit test lets one more through
AtLimit_offByOne(count) == count > MAX_SUB_AGENTS

\* if (this.activeSubAgentCount >= PlanningAgent.MAX_SUB_AGENTS)
AtLimit(count) == count >= MAX_SUB_AGENTS

\* how the generateIntention of a sub-agent ends: with a delta, with null, or by throwing
SubAgentOutcomes == {"delta", "null", "thrown"}

\* mutant: the decrement follows the return statement instead of sitting in finally
Released_onReturn(outcome) == outcome # "thrown"

\* finally { this.activeSubAgentCount--; }
Released(outcome) == TRUE

\* the sub-agents whose run is waiting for the spawn_agent call it made
Waiting == {spawnParent[c] : c \in {a \in 1..Len(subAgents) : subAgents[a] = "running"}}

\* the runs of the user that are waiting for the spawn_agent call they made
WaitingRuns == Cardinality({c \in 1..Len(subAgents) : subAgents[c] = "running" /\ spawnParent[c] = 0})

\* who can call spawn_agent: a run of the user (0) or a running sub-agent, when its
\* chatWithTools is not inside an awaited toolExecutor call
Requesters ==
    (IF WaitingRuns < MaxRuns THEN {0} ELSE {})
        \cup {a \in 1..Len(subAgents) : subAgents[a] = "running" /\ a \notin Waiting}

\* spawnSubAgent is called: the limit test, then either return null or the increment
\* and the start of generateIntention
SpawnRequest ==
    /\ Len(subAgents) < MaxSpawns
    /\ \E p \in Requesters :
        spawnParent' = Append(spawnParent, IF AtLimit(activeSubAgentCount) THEN 0 ELSE p)
    /\ IF AtLimit(activeSubAgentCount)
       THEN /\ subAgents' = Append(subAgents, "rejected")
            /\ spawnReturn' = Append(spawnReturn, "null")
            /\ UNCHANGED activeSubAgentCount
       ELSE /\ activeSubAgentCount' = activeSubAgentCount + 1
            /\ subAgents' = Append(subAgents, "running")
            /\ spawnReturn' = Append(spawnReturn, "pending")
    /\ UNCHANGED SpawnFrame

\* the awaited generateIntention of sub-agent a settles: return result or rethrow,
\* through the finally block
SubAgentEnds ==
    /\ \E a \in 1..Len(subAgents), outcome \in SubAgentOutcomes :
        /\ subAgents[a] = "running"
        /\ a \notin Waiting
        /\ subAgents' = [subAgents EXCEPT ![a] = "ended"]
        /\ spawnParent' = [spawnParent EXCEPT ![a] = 0]
        /\ spawnReturn' = [spawnReturn EXCEPT ![a] = outcome]
        /\ activeSubAgentCount' = IF Released(outcome) THEN activeSubAgentCount - 1 ELSE activeSubAgentCount
    /\ UNCHANGED SpawnFrame

SpawnInit ==
    /\ activeSubAgentCount = 0
    /\ subAgents = <<>>
    /\ spawnReturn = <<>>
    /\ spawnParent = <<>>

SpawnIdle == SpawnInit

SpawnNext == SpawnRequest \/ SubAgentEnds

DelegationInit ==
    /\ SpawnInit
    /\ ApplyIdle /\ MergedIdle /\ ChatIdle /\ GenIdle /\ PlanIdle /\ QueryIdle /\ TallyInit /\ SandboxIdle /\ ReviewIdle /\ RepoIdle /\ StoreIdle /\ LogIdle

SpecSpawn == DelegationInit /\ [][SpawnNext]_vars

(***************************************************************************)
(* Graph traversal: GraphQuery.getSubgraph (extension) and GraphIndex      *)
(* getDownstream, getUpstream, getSubgraphByEntryPoint (library)           *)
(***************************************************************************)
QueryIds == {"n1", "n2", "n3"}
QueryRefLists == {<<>>} \cup {<<r>> : r \in QueryIds}

\* a node of a queried graph; entry says whether its entryPoints hold the entry point
\* a getSubgraphByEntryPoint call asks for
QueryNode(id, inputs, outputs, entry) ==
    [id |-> id, inputs |-> inputs, outputs |-> outputs, entry |-> entry]
QueryNodes(id, entries) ==
    {QueryNode(id, i, o, e) : i \in QueryRefLists, o \in QueryRefLists, e \in entries}

\* graphs as loadGraph and YamlLoader.loadNodes build them: every node under its own id;
\* references may name ids the graph does not hold
QueryGraphs(entries) ==
    UNION {{g \in [S -> UNION {QueryNodes(id, entries) : id \in S}] : \A k \in S : g[k].id = k} : S \in SUBSET QueryIds}

\* a set as the list an iteration over it yields, in some order
RECURSIVE SetToSeq(_)
SetToSeq(S) == IF S = {} THEN <<>> ELSE LET x == CHOOSE y \in S : TRUE IN <<x>> \o SetToSeq(S \ {x})

\* GraphQuery.getSubgraph: the while loop over queue, with visited and result
RECURSIVE getSubgraphLoop(_, _, _, _)
getSubgraphLoop(g, queue, visited, result) ==
    IF queue = <<>> THEN result
    ELSE LET nodeId == Head(queue)
             rest == Tail(queue)
             seen == visited \cup {nodeId}
             unvisited(ref) == ref \notin seen
         IN  IF nodeId \in visited THEN getSubgraphLoop(g, rest, visited, result)
             ELSE IF nodeId \notin DOMAIN g THEN getSubgraphLoop(g, rest, seen, result)
             ELSE getSubgraphLoop(g, rest \o SelectSeq(g[nodeId].outputs, unvisited), seen, Append(result, g[nodeId]))

getSubgraph(g, entryPointId) == getSubgraphLoop(g, <<entryPointId>>, {}, <<>>)

\* mutant: the constructor of GraphIndex does not record the reverse of an input
downstreamIndex_ownOutputs(g, nodeId) ==
    UNION {Range(g[k].outputs) : k \in {x \in DOMAIN g : x = nodeId}}

\* GraphIndex constructor: downstream[input.ref] gets node.id, downstream[node.id] gets output.ref
downstreamIndex(g, nodeId) ==
    {k \in DOMAIN g : nodeId \in Range(g[k].inputs)}
        \cup UNION {Range(g[k].outputs) : k \in {x \in DOMAIN g : x = nodeId}}

\* GraphIndex constructor: upstream[node.id] gets input.ref, upstream[output.ref] gets node.id
upstreamIndex(g, nodeId) ==
    {k \in DOMAIN g : nodeId \in Range(g[k].outputs)}
        \cup UNION {Range(g[k].inputs) : k \in {x \in DOMAIN g : x = nodeId}}

\* ids.stream().map(nodes::get).filter(Objects::nonNull).toList()
NodesOf(g, ids) == SetToSeq({g[k] : k \in ids \cap DOMAIN g})

getDownstream(g, nodeId) == NodesOf(g, downstreamIndex(g, nodeId))
getUpstream(g, nodeId) == NodesOf(g, upstreamIndex(g, nodeId))

\* getNodesByEntryPointRef: the nodes whose entryPoints hold the ref
getNodesByEntryPointRef(g) == NodesOf(g, {k \in DOMAIN g : g[k].entry})

\* getSubgraphByEntryPoint: the while loop over queue with resultNodes
RECURSIVE getSubgraphByEntryPointLoop(_, _, _)
getSubgraphByEntryPointLoop(g, queue, resultNodes) ==
    IF queue = <<>> THEN resultNodes
    ELSE LET node == Head(queue)
         IN  IF node.id \in DOMAIN resultNodes
             THEN getSubgraphByEntryPointLoop(g, Tail(queue), resultNodes)
             ELSE getSubgraphByEntryPointLoop(g, Tail(queue) \o getDownstream(g, node.id), MapPut(resultNodes, node.id, node))

getSubgraphByEntryPoint(g) == getSubgraphByEntryPointLoop(g, getNodesByEntryPointRef(g), <<>>)

\* the arguments of a traversal call: the graph and the id asked for ("n0" is in no graph)
GraphAndId == {[g |-> g, id |-> id] : g \in QueryGraphs({FALSE}), id \in QueryIds \cup {"n0"}}
GraphOnly == {[g |-> g, id |-> "n0"] : g \in QueryGraphs({FALSE, TRUE})}

Value(v) == [kind |-> "value", value |-> v]

QueryGetSubgraph ==
    /\ qFn = "getSubgraph"
    /\ Returns("getSubgraph", Value(getSubgraph(qArgs.g, qArgs.id)))

QueryGetSubgraphByEntryPoint ==
    /\ qFn = "getSubgraphByEntryPoint"
    /\ Returns("getSubgraphByEntryPoint", Value(getSubgraphByEntryPoint(qArgs.g)))

QueryGetDownstream ==
    /\ qFn = "getDownstream"
    /\ Returns("getDownstream", Value(getDownstream(qArgs.g, qArgs.id)))

QueryGetUpstream ==
    /\ qFn = "getUpstream"
    /\ Returns("getUpstream", Value(getUpstream(qArgs.g, qArgs.id)))

TraversalInit ==
    \/ Called("getSubgraph", GraphAndId)
    \/ Called("getSubgraphByEntryPoint", GraphOnly)
    \/ Called("getDownstream", GraphAndId)
    \/ Called("getUpstream", GraphAndId)

TraversalNext ==
    \/ QueryGetSubgraph
    \/ QueryGetSubgraphByEntryPoint
    \/ QueryGetDownstream
    \/ QueryGetUpstream

(***************************************************************************)
(* Entry-point filters: GraphQuery.findNodes (extension) and               *)
(* matchesEntryPointFilters (library); strings are sequences of characters *)
(***************************************************************************)
\* String.prototype.toLowerCase / String.toLowerCase(Locale.ROOT)
LowerChar(c) == IF c = "A" THEN "a" ELSE IF c = "B" THEN "b" ELSE IF c = "J" THEN "j" ELSE c
toLowerCase(str) == [i \in 1..Len(str) |-> LowerChar(str[i])]

\* String.prototype.includes / String.contains
includes(str, term) ==
    \E i \in 1..(Len(str) + 1) : i + Len(term) - 1 <= Len(str) /\ SubSeq(str, i, i + Len(term) - 1) = term

EntryPoint(kind, name) == [kind |-> kind, name |-> name]
EntryPoints == {EntryPoint(k, n) : k \in {<<"J">>, <<"q">>}, n \in {<<"a">>, <<"b">>, <<"A", "b">>}}
EntryPointLists == {<<>>} \cup {<<x>> : x \in EntryPoints} \cup {<<x, y>> : x \in EntryPoints, y \in EntryPoints}

Keywords == {<<"a">>, <<"B">>, <<"j">>, <<"a", "b">>}
FilterGroups == {<<>>} \cup {<<k>> : k \in Keywords} \cup {<<k, l>> : k \in Keywords, l \in Keywords}
FilterLists == {<<>>} \cup {<<g>> : g \in FilterGroups} \cup {<<g, h>> : g \in FilterGroups, h \in FilterGroups}

\* the filter callback of GraphQuery.findNodes, for one node: some group has all its
\* terms in the name of one entry point
findNodesMatches(entryPoints, filters) ==
    IF Len(entryPoints) = 0 THEN FALSE
    ELSE \E gi \in 1..Len(filters) :
            \E ei \in 1..Len(entryPoints) :
                LET epName == toLowerCase(entryPoints[ei].name)
                IN  \A ti \in 1..Len(filters[gi]) : includes(epName, toLowerCase(filters[gi][ti]))

\* .map(ep -> kind + ":" + ref).reduce("", (a, b) -> a + " " + b).toLowerCase()
RECURSIVE haystackOf(_)
haystackOf(entryPoints) ==
    IF entryPoints = <<>> THEN <<>>
    ELSE haystackOf(SubSeq(entryPoints, 1, Len(entryPoints) - 1))
            \o <<" ">> \o entryPoints[Len(entryPoints)].kind \o <<":">> \o entryPoints[Len(entryPoints)].name

\* matchesEntryPointFilters: no entry point, no match; no filter, match; an empty group
\* is skipped; otherwise some group has all its keywords in the haystack
matchesEntryPointFilters(entryPoints, filters) ==
    IF Len(entryPoints) = 0 THEN FALSE
    ELSE IF Len(filters) = 0 THEN TRUE
    ELSE LET haystack == toLowerCase(haystackOf(entryPoints))
         IN  \E gi \in 1..Len(filters) :
                /\ Len(filters[gi]) > 0
                /\ \A ki \in 1..Len(filters[gi]) : includes(haystack, toLowerCase(filters[gi][ki]))

NodeAndFilters == {[entryPoints |-> eps, filters |-> f] : eps \in EntryPointLists, f \in FilterLists}

QueryFindNodes ==
    /\ qFn = "findNodes"
    /\ Returns("findNodes", Value(findNodesMatches(qArgs.entryPoints, qArgs.filters)))

QueryMatchesEntryPointFilters ==
    /\ qFn = "matchesEntryPointFilters"
    /\ Returns("matchesEntryPointFilters", Value(matchesEntryPointFilters(qArgs.entryPoints, qArgs.filters)))

FilterInit ==
    \/ Called("findNodes", NodeAndFilters)
    \/ Called("matchesEntryPointFilters", NodeAndFilters)

FilterNext == QueryFindNodes \/ QueryMatchesEntryPointFilters

(***************************************************************************)
(* Graph tools: AiAgentTools.executeTool for get_node, get_subgraph and    *)
(* find_nodes, over GraphStore (base nodes, selected intent) and the       *)
(* intent its caller passes                                                *)
(***************************************************************************)
ToolNode(id, name, outputs, entryPoints) ==
    [id |-> id, name |-> name, outputs |-> outputs, entryPoints |-> entryPoints]
ToolEntryPointLists == {<<>>, <<EntryPoint(<<"J">>, <<"a">>)>>}
\* nodes of the base graph (name "a") and nodes carried by a delta (name "b")
ToolNodes(id, name) == {ToolNode(id, name, o, eps) : o \in RefLists, eps \in ToolEntryPointLists}
ToolGraphs ==
    UNION {{g \in [S -> UNION {ToolNodes(id, "a") : id \in S}] : \A k \in S : g[k].id = k} : S \in SUBSET Ids}
ToolOps == {TsOp(o, n) : o \in {"add", "update", "remove"}, n \in UNION {ToolNodes(id, "b") : id \in Ids}}
\* the intent a refine or tweak run passes, and the intent selected in the store
GraphDelta(operations) == [given |-> TRUE, operations |-> operations]
NoDelta == [given |-> FALSE, operations |-> <<>>]
ToolDeltas == {GraphDelta(<<>>)} \cup {GraphDelta(<<op>>) : op \in ToolOps}
SelectedDeltas ==
    {GraphDelta(<<op>>) : op \in {x \in ToolOps : x.operation = "add" /\ x.node.entryPoints = <<>>}}
\* what a lookup yields: a node, null or undefined
Found(n) == [found |-> "node", node |-> n]
NotFound(how) == [found |-> how]
ToolFilters == <<(<<(<<"a">>)>>)>>

\* GraphQuery.applyDelta over the base Map, the values keyed by id
RECURSIVE mergedNodeMap(_, _)
mergedNodeMap(g, ops) ==
    IF ops = <<>> THEN g
    ELSE LET op == Head(ops)
         IN  mergedNodeMap(IF op.operation = "remove" THEN MapRemove(g, op.node.id)
                           ELSE MapPut(g, op.node.id, op.node),
                           Tail(ops))

\* GraphStore.getMergedNodes(intent) as executeTool's getNodes() reads it
getNodes(base, intent) == IF intent.given THEN mergedNodeMap(base, intent.operations) ELSE base

\* GraphStore.getNode: the base node, else the node of the first operation of the
\* selected intent that carries the id
storeGetNode(base, selected, id) ==
    IF id \in DOMAIN base THEN Found(base[id])
    ELSE IF ~selected.given THEN NotFound("undefined")
    ELSE LET hits == {i \in 1..Len(selected.operations) : selected.operations[i].node.id = id}
         IN  IF hits = {} THEN NotFound("undefined")
             ELSE Found(selected.operations[CHOOSE i \in hits : \A j \in hits : i <= j].node)

\* case 'get_node'
toolGetNode(base, selected, intent, id) ==
    IF intent.given
    THEN LET map == getNodes(base, intent)
         IN  IF id \in DOMAIN map THEN Found(map[id]) ELSE NotFound("null")
    ELSE storeGetNode(base, selected, id)

\* case 'get_subgraph': the traversal on the merged nodes, or store.getSubgraph
toolGetSubgraph(base, intent, entryPointId) ==
    IF intent.given
    THEN getSubgraph(getNodes(base, intent), entryPointId)
    ELSE getSubgraph(base, entryPointId)

\* case 'find_nodes': the filter on the merged list, or store.findNodes
toolFindNodes(base, intent, filters) ==
    LET nodes == IF intent.given THEN getNodes(base, intent) ELSE base
    IN  {nodes[k] : k \in {x \in DOMAIN nodes : findNodesMatches(nodes[x].entryPoints, filters)}}

ToolCallArgs ==
    {[base |-> b, selected |-> s, intent |-> i, id |-> id] :
        b \in ToolGraphs, s \in {NoDelta} \cup SelectedDeltas, i \in {NoDelta} \cup ToolDeltas, id \in Ids}

QueryToolGetNode ==
    /\ qFn = "get_node"
    /\ Returns("get_node", Value(toolGetNode(qArgs.base, qArgs.selected, qArgs.intent, qArgs.id)))

QueryToolGetSubgraph ==
    /\ qFn = "get_subgraph"
    /\ Returns("get_subgraph", Value(toolGetSubgraph(qArgs.base, qArgs.intent, qArgs.id)))

QueryToolFindNodes ==
    /\ qFn = "find_nodes"
    /\ Returns("find_nodes", Value(toolFindNodes(qArgs.base, qArgs.intent, ToolFilters)))

\* GraphStore.getNode called on the store
QueryStoreGetNode ==
    /\ qFn = "getNode"
    /\ Returns("getNode", Value(storeGetNode(qArgs.base, qArgs.selected, qArgs.id)))

\* tweakNode: the node the conversation is seeded with, or the early return of null
tweakNodeFocus(base, selected, nodeId) ==
    LET node == storeGetNode(base, selected, nodeId)
    IN  IF node.found = "node" THEN node ELSE NotFound("null")

QueryTweakNodeFocus ==
    /\ qFn = "tweakNode"
    /\ Returns("tweakNode", Value(tweakNodeFocus(qArgs.base, qArgs.selected, qArgs.id)))

ToolInit ==
    \/ Called("getNode", {a \in ToolCallArgs : a.intent = NoDelta})
    \/ Called("tweakNode", {a \in ToolCallArgs : a.intent = NoDelta})
    \/ Called("get_node", ToolCallArgs)
    \/ Called("get_subgraph", ToolCallArgs)
    \/ Called("find_nodes", {a \in ToolCallArgs : a.id = "n1"})

ToolNext ==
    \/ QueryToolGetNode
    \/ QueryToolGetSubgraph
    \/ QueryToolFindNodes
    \/ QueryStoreGetNode
    \/ QueryTweakNodeFocus

(***************************************************************************)
(* SpecQuery: one call of one of the pure functions                        *)
(***************************************************************************)
QueryInit ==
    /\ ParseInit \/ TraversalInit \/ FilterInit \/ ToolInit
    /\ ApplyIdle /\ MergedIdle /\ ChatIdle /\ GenIdle /\ PlanIdle /\ SpawnIdle /\ TallyInit /\ SandboxIdle /\ ReviewIdle /\ RepoIdle /\ StoreIdle /\ LogIdle

QueryNext == ParseNext \/ TraversalNext \/ FilterNext \/ ToolNext

SpecQuery == QueryInit /\ [][QueryNext]_vars

(***************************************************************************)
(* SpecSandbox: one execute_code call                                      *)
(***************************************************************************)
ExecuteInit ==
    /\ SandboxInit
    /\ ApplyIdle /\ MergedIdle /\ ChatIdle /\ GenIdle /\ PlanIdle /\ SpawnIdle /\ QueryIdle /\ TallyInit /\ ReviewIdle /\ RepoIdle /\ StoreIdle /\ LogIdle

SpecSandbox == ExecuteInit /\ [][SandboxNext]_vars

(***************************************************************************)
(* SpecReview: one review session in one IDE                               *)
(***************************************************************************)
SessionInit ==
    /\ ReviewInit
    /\ ApplyIdle /\ MergedIdle /\ ChatIdle /\ GenIdle /\ PlanIdle /\ SpawnIdle /\ QueryIdle /\ TallyInit /\ SandboxIdle /\ RepoIdle /\ StoreIdle /\ LogIdle

SpecReview == SessionInit /\ [][ReviewNext]_vars

(***************************************************************************)
(* SpecRepo: one writeDelta on one repository, then one loadGraph          *)
(***************************************************************************)
WriteInit ==
    /\ RepoInit
    /\ ApplyIdle /\ MergedIdle /\ ChatIdle /\ GenIdle /\ PlanIdle /\ SpawnIdle /\ QueryIdle /\ TallyInit
    /\ SandboxIdle /\ ReviewIdle /\ StoreIdle /\ LogIdle

SpecRepo == WriteInit /\ [][RepoNext]_vars

(***************************************************************************)
(* SpecStore: the store of one extension host                              *)
(***************************************************************************)
ActivateInit ==
    /\ StoreInit
    /\ ApplyIdle /\ MergedIdle /\ ChatIdle /\ GenIdle /\ PlanIdle /\ SpawnIdle /\ QueryIdle /\ TallyInit
    /\ SandboxIdle /\ ReviewIdle /\ RepoIdle /\ LogIdle

SpecStore == ActivateInit /\ [][StoreNext]_vars

(***************************************************************************)
(* SpecLog: the AgentLogger of one extension host                          *)
(***************************************************************************)
GetInstanceInit ==
    /\ LogInit
    /\ ApplyIdle /\ MergedIdle /\ ChatIdle /\ GenIdle /\ PlanIdle /\ SpawnIdle /\ QueryIdle /\ TallyInit
    /\ SandboxIdle /\ ReviewIdle /\ RepoIdle /\ StoreIdle

SpecLog == GetInstanceInit /\ [][LogNext]_vars

(***************************************************************************)
(* SpecLoop: one run of chatWithTools or one run of generateDelta          *)
(***************************************************************************)
LoopInit ==
    \/ ChatInit /\ PlanInit /\ GenIdle /\ ApplyIdle /\ MergedIdle /\ SpawnIdle /\ QueryIdle /\ TallyInit /\ SandboxIdle /\ ReviewIdle /\ RepoIdle /\ StoreIdle /\ LogIdle
    \/ GenInit /\ ChatIdle /\ PlanIdle /\ ApplyIdle /\ MergedIdle /\ SpawnIdle /\ QueryIdle /\ TallyInit /\ SandboxIdle /\ ReviewIdle /\ RepoIdle /\ StoreIdle /\ LogIdle

LoopNext == ChatNext \/ PlanNext \/ GenNext

SpecLoop == LoopInit /\ [][LoopNext]_vars

\* every pending step is eventually taken: the backend settles each request, a sleep
\* ends when its timer fires, and the event loop runs each continuation
SpecLoopFair == SpecLoop /\ WF_vars(LoopNext)

(***************************************************************************)
(* SpecGraph: one call of applyDelta, or one call of getMergedNodes        *)
(***************************************************************************)
GraphInit ==
    \/ ApplyInit /\ MergedIdle /\ ChatIdle /\ GenIdle /\ PlanIdle /\ SpawnIdle /\ QueryIdle /\ TallyInit /\ SandboxIdle /\ ReviewIdle /\ RepoIdle /\ StoreIdle /\ LogIdle
    \/ MergedInit /\ ApplyIdle /\ ChatIdle /\ GenIdle /\ PlanIdle /\ SpawnIdle /\ QueryIdle /\ TallyInit /\ SandboxIdle /\ ReviewIdle /\ RepoIdle /\ StoreIdle /\ LogIdle

GraphNext ==
    \/ ApplyNext
    \/ MergedNext

SpecGraph == GraphInit /\ [][GraphNext]_vars

(***************************************************************************)
(* Properties of applyDelta and of the merged view                         *)
(***************************************************************************)
Refs(n) == Range(n.inputs) \cup Range(n.outputs)

\* C1: if applyDelta succeeds, every id listed in the inputs or outputs of every
\* node of the returned graph is a key of the returned graph.
C1_ReferentialIntegrity ==
    applyResult.returned =>
        \A k \in DOMAIN applyResult.nodes : Refs(applyResult.nodes[k]) \subseteq DOMAIN applyResult.nodes

C1_Witness ==
    /\ applyResult.returned
    /\ opCount >= 1
    /\ applyResult.nodes # graph0
    /\ \E k \in DOMAIN applyResult.nodes : Refs(applyResult.nodes[k]) # {}

\* a cycle of the relation that joins each key to the inputs and outputs of its node,
\* stated by reachability: some key is reached again from its own neighbours
RECURSIVE ReachableFrom(_, _)
ReachableFrom(g, S) ==
    LET T == S \cup UNION {Refs(g[x]) : x \in S \cap DOMAIN g}
    IN  IF T = S THEN S ELSE ReachableFrom(g, T)

UnionCycle(g) == \E a \in DOMAIN g : a \in ReachableFrom(g, Refs(g[a]))

\* every operation of the delta was applied and the validation was reached
ApplyValidated == applyPc \in {"returned", "thrown"} /\ applyErr \in {"none", "invalid"}

C3_Atomicity ==
    applyErr \in {"duplicate", "not_found"} =>
        (applyPc = "thrown" /\ ~applyResult.returned /\ graph = graph0)

C3_Witness ==
    /\ applyErr = "duplicate"
    /\ opCount = 2
    /\ newNodes # graph0
    /\ graph = graph0

\* C4: the operations are processed in order, each against the map as the earlier
\* operations left it: add fails as duplicate exactly when its id is present then,
\* update fails as not-found exactly when its target is absent then, and remove of
\* an absent id changes nothing and never fails.
C4_OperationSemantics ==
    [][(applyPc = "ops" /\ opCount' = opCount + 1) =>
        LET op == lastOp' IN
        /\ (applyErr' # "none") <=> (applyPc' = "thrown")
        /\ (applyErr' # "none") => newNodes' = newNodes
        /\ (op.type = "ADD_NODE" /\ op.payload.kind = "node") =>
              /\ (applyErr' = "duplicate") <=> (op.payload.node.id \in DOMAIN newNodes)
              /\ (op.payload.node.id \notin DOMAIN newNodes) =>
                    /\ applyErr' = "none"
                    /\ newNodes' = MapPut(newNodes, op.payload.node.id, op.payload.node)
        /\ (op.type = "UPDATE_NODE" /\ op.payload.kind = "node") =>
              /\ (applyErr' = "not_found") <=> (op.target \notin DOMAIN newNodes)
              /\ (op.target \in DOMAIN newNodes) =>
                    /\ applyErr' = "none"
                    /\ newNodes' = MapPut(newNodes, op.target, op.payload.node)
        /\ (op.type = "REMOVE_NODE") =>
              /\ applyErr' = "none"
              /\ (op.target \notin DOMAIN newNodes) => newNodes' = newNodes
              /\ (op.target \in DOMAIN newNodes) => newNodes' = MapRemove(newNodes, op.target)
    ]_vars

\* a second add of an id the graph did not hold fails at the second add
C4_Witness ==
    /\ applyErr = "duplicate"
    /\ opCount = 2
    /\ lastOp.type = "ADD_NODE"
    /\ lastOp.payload.kind = "node"
    /\ lastOp.payload.node.id \notin DOMAIN graph0

NodesWithId(list, id) == {list[i] : i \in {j \in 1..Len(list) : list[j].id = id}}
OpsOn(ops, id) == {j \in 1..Len(ops) : ops[j].node.id = id}
AddUpdateOn(ops, id) == {j \in OpsOn(ops, id) : ops[j].operation \in {"add", "update"}}
LastOpOn(ops, id) == ops[CHOOSE j \in OpsOn(ops, id) : \A i \in OpsOn(ops, id) : i <= j]
\* the ids present both in the base graph and in the delta's add/update set
OverlaidIds == {id \in JsKeys(storeNodes0) : AddUpdateOn(pendingOps, id) # {}}
MergedWithDelta == mvPc = "returned" /\ ResolvesToDelta(intentArg)

\* C5 (as stated): for an id present both in the base graph and in the delta's
\* add/update set, the merged view returns the delta's version of the node.
C5_Original ==
    MergedWithDelta =>
        \A id \in OverlaidIds :
            /\ NodesWithId(mergedResult, id) # {}
            /\ NodesWithId(mergedResult, id) \subseteq {pendingOps[j].node : j \in AddUpdateOn(pendingOps, id)}

\* C5 (amended): for such an id the merged view returns the node of the delta's last
\* add/update operation on it, never the base's, unless the delta's last operation on
\* that id is a remove, in which case the view holds no node for the id.
C5_OverlayPrecedence ==
    MergedWithDelta =>
        \A id \in OverlaidIds :
            IF LastOpOn(pendingOps, id).operation = "remove"
            THEN NodesWithId(mergedResult, id) = {}
            ELSE NodesWithId(mergedResult, id) = {LastOpOn(pendingOps, id).node}

C5_Witness ==
    /\ MergedWithDelta
    /\ Len(pendingOps) >= 2
    /\ \E id \in OverlaidIds :
          /\ LastOpOn(pendingOps, id).operation # "remove"
          /\ NodesWithId(mergedResult, id) = {LastOpOn(pendingOps, id).node}
          /\ NodesWithId(JsValues(storeNodes0), id) # NodesWithId(mergedResult, id)

\* C6: applyDelta and the merged view never change the graph they are given, whether
\* the call returns or fails, and a merged view requested without a delta returns the
\* base graph's nodes unchanged.
C6_InputUnchanged ==
    /\ graph = graph0
    /\ storeNodes = storeNodes0
    /\ (mvPc = "returned" /\ ~ResolvesToDelta(intentArg)) => mergedResult = JsValues(storeNodes0)

C6_Witness ==
    /\ MergedWithDelta
    /\ storeNodes0 # <<>>
    /\ mergedResult # JsValues(storeNodes0)
    /\ storeNodes = storeNodes0

(***************************************************************************)
(* Properties of the agent loops, checked under SpecLoop                   *)
(***************************************************************************)
\* tail is an assistant message followed by one tool message for each of the first n
\* calls that message requested, in order and each under its own call id
TailMatches(tail, msg, n) ==
    /\ Len(tail) = 1 + n
    /\ tail[1] = AssistantMessage(msg)
    /\ \A i \in 1..n :
        /\ tail[i + 1].role = "tool"
        /\ tail[i + 1].tool_call_id = msg.tool_calls.calls[i].id
        /\ tail[i + 1].content \in {"result", "error"}

\* C7: the loop runs at most MAX_ITERATIONS rounds in the extension and MAX_TOOL_TURNS
\* turns in the library; a run that is still asked for tools past the cap ends in the
\* iteration-limit failure, and a run returns only on a response that asks for no tool
C7_IterationCap ==
    /\ roundsRun <= MAX_ITERATIONS
    /\ genRounds <= MAX_TOOL_TURNS
    /\ (iteration > MAX_ITERATIONS) => (chatPc = "thrown" /\ chatErr = "iteration_limit")
    /\ (turn >= MAX_TOOL_TURNS) => (genPc = "thrown" /\ genErr = "max_tool_turns")
    /\ (chatPc = "returned") => ~JsTruthy(response.tool_calls)
    /\ (genPc = "returned") => ~HasToolCalls(assistant.msg.tool_calls)

C7_Witness ==
    /\ chatPc = "thrown"
    /\ chatErr = "iteration_limit"
    /\ roundsRun = MAX_ITERATIONS

\* C8: while the tool calls of a response are executed, and when the next backend call
\* is made, the messages after the assistant message are exactly one tool message per
\* executed call, in request order, each carrying the id of its call
C8_StrictSequencing ==
    /\ (chatPc = "tools") => TailMatches(chatTail, response, toolIdx - 1)
    /\ (chatPc \in {"call", "sleep"} /\ roundsRun > 0)
            => TailMatches(chatTail, response, Len(response.tool_calls.calls))
    /\ (genPc = "tools") => TailMatches(genTail, assistant.msg, genIdx - 1)
    /\ (genPc = "call" /\ genRounds > 0)
            => TailMatches(genTail, assistant.msg, Len(assistant.msg.tool_calls.calls))

C8_Witness ==
    /\ chatPc = "call"
    /\ roundsRun > 1
    /\ Len(response.tool_calls.calls) = 2
    /\ chatTail[2].content = "error"
    /\ chatTail[3].content = "result"

\* the tool-call list of a message is absent or empty
AbsentOrEmpty(tc) == ~tc.present \/ Len(tc.calls) = 0

\* C9: once a response carries no tool calls (the list absent or empty) the loop has
\* ended: no tool runs, no further backend call is made, and the content of that
\* response is what is returned to be parsed as the Delta
C9_EndsOnNoToolCalls ==
    /\ (response # NoResponse /\ AbsentOrEmpty(response.tool_calls))
            => /\ chatPc = "returned"
               /\ chatContent = (IF response.content = "null" THEN "" ELSE response.content)
    /\ (assistant.kind = "assistant" /\ AbsentOrEmpty(assistant.msg.tool_calls))
            => /\ genPc \in {"returned", "thrown"}
               /\ (genPc = "returned") => (genResult = assistant.msg.content)
               /\ (genPc = "thrown") => (genErr \in {"no_content", "parse_error"})

\* C10: a step of the tool loop never ends the loop: whatever the tool does, a tool
\* message with the id of the call is appended, and it carries an error when the
\* arguments are malformed or the tool is unknown
ToolStepAnswered(tail, tail2, call) ==
    /\ Len(tail2) = Len(tail) + 1
    /\ SubSeq(tail2, 1, Len(tail)) = tail
    /\ tail2[Len(tail2)].role = "tool"
    /\ tail2[Len(tail2)].tool_call_id = call.id
    /\ (call.args = "malformed" \/ call.name = "bogus_tool") => (tail2[Len(tail2)].content = "error")

C11_RateLimitRetry ==
    /\ [](/\ attempt <= MaxRetries
          /\ (chatPc = "call") => (attempt < MaxRetries)
          /\ (chatPc = "sleep") => (lastError = "429" /\ lastWait > 0)
          /\ (chatErr = "rate_limit") => (chatPc = "thrown" /\ attempt = MaxRetries))
    /\ [][(chatPc = "sleep" /\ attempt + 1 < MaxRetries)
            => (chatPc' = "call" /\ attempt' = attempt + 1 /\ chatErr' = "none")]_vars

C11_Witness ==
    /\ chatPc = "thrown"
    /\ chatErr = "rate_limit"
    /\ attempt = MaxRetries
    /\ roundsRun > 0

\* C12: a backend error that is not a rate limit is thrown at once: no wait follows it,
\* the attempt is not repeated, and nothing more happens in the run
C12_OtherErrorsPropagate ==
    /\ []((lastError \notin {"none", "429"})
            => (chatPc = "thrown" /\ chatErr = "backend_error"))
    /\ [][(chatErr' = "backend_error" /\ chatErr = "none")
            => /\ chatPc = "call"
               /\ UNCHANGED <<attempt, lastWait, lastHint, iteration, roundsRun, chatTail, toolIdx, response>>]_vars
    /\ [][(chatErr = "backend_error") => UNCHANGED chatVars]_vars

C12_Witness ==
    /\ chatPc = "thrown"
    /\ chatErr = "backend_error"
    /\ lastError = "500"
    /\ roundsRun > 0
    /\ attempt = 1

(***************************************************************************)
(* Properties of the parsers, checked under SpecQuery                      *)
(***************************************************************************)
IsParse == qFn \in {"parseIntentFromResponse", "parseDeltaFromAI"} /\ qPc = "done"

\* the whole content, or failing that a fenced block of it, has the Delta structure
ParsesAsDeltaStructure(content) ==
    \/ content.whole = "delta"
    \/ content.whole = "malformed" /\ "delta" \in {content.jsonBlock, content.yamlBlock}

\* C13: the final content yields a Delta only if the whole content or a fenced block
\* of it parses as the Delta structure; otherwise the parse fails with a parse error
\* that carries the raw content, and nothing without the Delta structure is returned
C13_ParseOrFail ==
    IsParse =>
        /\ (qResult.kind = "value") => (qResult.structure = "delta" /\ ParsesAsDeltaStructure(qArgs))
        /\ (qResult.kind # "value") => (qResult = Throws("parse_error", TRUE))

(***************************************************************************)
(* Properties of a whole run, checked under SpecLoop                       *)
(***************************************************************************)
TypedFailures == {"validation_error", "rate_limit", "parse_error", "iteration_limit"}

\* the failure the caller of generateDelta sees, by the exception and its message
GenFailure == IF genErr = "max_tool_turns" THEN "iteration_limit" ELSE genErr

\* C14: a run ends with a Delta or with a typed failure: what reaches the caller is a
\* validation, rate-limit, parse or iteration-limit failure, told apart from the
\* others; no other fault ends the run
C14_TypedOutcome ==
    /\ (planPc = "done") =>
        \/ planResult.kind = "value"
        \/ /\ planResult.kind = "thrown"
           /\ planResult.error \in TypedFailures
           /\ (chatErr # "none") => (planResult.error = chatErr)
    /\ (genPc = "thrown") => (GenFailure \in TypedFailures)

(***************************************************************************)
(* Properties of sub-agent delegation, checked under SpecSpawn             *)
(***************************************************************************)
Running == {a \in 1..Len(subAgents) : subAgents[a] = "running"}

\* C15: at most MAX_SUB_AGENTS sub-agents are active at any time, and a spawn request
\* made while that many are active returns null in the same step: it is neither
\* started nor kept waiting, and it throws nothing
C15_BoundedDelegation ==
    /\ [](/\ Cardinality(Running) <= MAX_SUB_AGENTS
          /\ \A a \in 1..Len(subAgents) : (subAgents[a] = "rejected") => (spawnReturn[a] = "null"))
    /\ [][(Len(subAgents') > Len(subAgents) /\ Cardinality(Running) = MAX_SUB_AGENTS)
            => /\ subAgents'[Len(subAgents')] = "rejected"
               /\ spawnReturn'[Len(subAgents')] = "null"
               /\ Running' = Running
               /\ activeSubAgentCount' = activeSubAgentCount]_vars

C15_Witness ==
    /\ Cardinality(Running) = MAX_SUB_AGENTS
    /\ \E a \in 1..Len(subAgents) : subAgents[a] = "rejected"

\* C16: the counter goes up when a sub-agent starts and down once when it ends,
\* whatever its outcome: it is never negative, always equals the number of sub-agents
\* still running, and is 0 when none runs
C16_CounterMatchesRunning ==
    /\ [](/\ activeSubAgentCount >= 0
          /\ activeSubAgentCount = Cardinality(Running)
          /\ (Running = {}) => (activeSubAgentCount = 0))
    /\ [][/\ (Cardinality(Running') > Cardinality(Running))
                => (activeSubAgentCount' = activeSubAgentCount + 1)
          /\ (Cardinality(Running') < Cardinality(Running))
                => (activeSubAgentCount' = activeSubAgentCount - 1)]_vars

C16_Witness ==
    /\ Len(subAgents) > MAX_SUB_AGENTS
    /\ Running = {}
    /\ activeSubAgentCount = 0
    /\ \E a, b, c \in 1..Len(subAgents) :
        /\ spawnReturn[a] = "thrown"
        /\ spawnReturn[b] = "delta"
        /\ spawnReturn[c] = "null" /\ subAgents[c] = "ended"

\* the run is over: generateIntention or generateDelta has returned or thrown
RunEnded == planPc = "done" \/ genPc \in {"returned", "thrown"}

\* the most backend calls one run of chatWithTools can make
CallCap == (MAX_ITERATIONS + 1) * MaxRetries

Done(fn) == qFn = fn /\ qPc = "done"

\* b is downstream of a: both are nodes of g and either end declares the edge
DownEdge(g, a, b) ==
    /\ a \in DOMAIN g
    /\ b \in DOMAIN g
    /\ (b \in Range(g[a].outputs) \/ a \in Range(g[b].inputs))

\* the nodes of g reachable from the nodes of S over downstream edges, S included
RECURSIVE DownClosure(_, _)
DownClosure(g, S) ==
    LET T == S \cup {b \in DOMAIN g : \E a \in S : DownEdge(g, a, b)}
    IN  IF T = S THEN S ELSE DownClosure(g, T)

\* C18: getSubgraph(e) returns, each once, exactly the nodes reachable from e over
\* downstream edges declared by either end, e included, and nothing when e is absent
C18_SubgraphClosure ==
    /\ Done("getSubgraph") =>
        /\ {n.id : n \in Range(qResult.value)} = DownClosure(qArgs.g, {qArgs.id} \cap DOMAIN qArgs.g)
        /\ Len(qResult.value) = Cardinality(Range(qResult.value))
        /\ \A n \in Range(qResult.value) : n = qArgs.g[n.id]
    /\ Done("getSubgraphByEntryPoint") =>
        /\ DOMAIN qResult.value = DownClosure(qArgs.g, {k \in DOMAIN qArgs.g : qArgs.g[k].entry})
        /\ \A k \in DOMAIN qResult.value : qResult.value[k] = qArgs.g[k]

\* C19: getDownstream(id) is exactly the nodes id lists as outputs and the nodes that
\* list id as an input, getUpstream(id) the mirror image; so for nodes A and B, B is in
\* getDownstream(A) exactly when A is in getUpstream(B)
C19_NeighborSets ==
    /\ Done("getDownstream") =>
        /\ Range(qResult.value) = {qArgs.g[b] : b \in {x \in DOMAIN qArgs.g :
                \/ qArgs.id \in DOMAIN qArgs.g /\ x \in Range(qArgs.g[qArgs.id].outputs)
                \/ qArgs.id \in Range(qArgs.g[x].inputs)}}
        /\ Len(qResult.value) = Cardinality(Range(qResult.value))
        /\ \A b \in DOMAIN qArgs.g :
            (qArgs.id \in DOMAIN qArgs.g) =>
                ((qArgs.g[b] \in Range(qResult.value)) <=> (qArgs.g[qArgs.id] \in Range(getUpstream(qArgs.g, b))))
    /\ Done("getUpstream") =>
        /\ Range(qResult.value) = {qArgs.g[a] : a \in {x \in DOMAIN qArgs.g :
                \/ qArgs.id \in DOMAIN qArgs.g /\ x \in Range(qArgs.g[qArgs.id].inputs)
                \/ qArgs.id \in Range(qArgs.g[x].outputs)}}
        /\ Len(qResult.value) = Cardinality(Range(qResult.value))

\* an edge declared by the target alone: n2 lists n1 as input, n1 lists no output
C19_Witness ==
    /\ Done("getDownstream")
    /\ qArgs.id = "n1"
    /\ DOMAIN qArgs.g = QueryIds
    /\ qArgs.g["n1"].outputs = <<>>
    /\ qArgs.g["n2"].inputs = <<"n1">>
    /\ qArgs.g["n2"] \in Range(qResult.value)

\* the kind and name strings of all the entry points, concatenated and lower-cased
RECURSIVE KindsAndNames(_)
KindsAndNames(entryPoints) ==
    IF entryPoints = <<>> THEN <<>>
    ELSE toLowerCase(Head(entryPoints).kind \o <<" ">> \o Head(entryPoints).name \o <<" ">>)
            \o KindsAndNames(Tail(entryPoints))

\* C20: a node matches exactly when it has an entry point and some group has every one
\* of its keywords as a case-insensitive substring of the concatenated kind and name
\* strings of all its entry points
C20_FilterSemantics ==
    (Done("findNodes") \/ Done("matchesEntryPointFilters")) =>
        (qResult.value <=>
            /\ Len(qArgs.entryPoints) > 0
            /\ \E gi \in 1..Len(qArgs.filters) :
                \A ki \in 1..Len(qArgs.filters[gi]) :
                    includes(KindsAndNames(qArgs.entryPoints), toLowerCase(qArgs.filters[gi][ki])))

(***************************************************************************)
(* Properties of validateGraph                                             *)
(***************************************************************************)
\* the number of positions of a reference list that name no key of the graph
RECURSIVE DanglingIn(_, _)
DanglingIn(refs, keys) ==
    IF refs = <<>> THEN 0
    ELSE (IF Head(refs) \in keys THEN 0 ELSE 1) + DanglingIn(Tail(refs), keys)

RECURSIVE DanglingCount(_, _)
DanglingCount(g, todo) ==
    IF todo = {} THEN 0
    ELSE LET k == CHOOSE x \in todo : TRUE
         IN  DanglingIn(g[k].inputs, DOMAIN g) + DanglingIn(g[k].outputs, DOMAIN g)
                + DanglingCount(g, todo \ {k})

\* C21: validateGraph reports one error for each input or output position of each
\* node that names no key of the graph, and one more error when the graph is cyclic,
\* however many cycles there are; isValid is true exactly when nothing is reported
\* (applyDelta returns exactly then), and validating changes nothing in the graph.
C21_ValidateCollects ==
    /\ [](applyPc # "idle" =>
            LET v == validateGraph(newNodes)
            IN  /\ Cardinality(v.errors) =
                        DanglingCount(newNodes, DOMAIN newNodes) + (IF hasCycles(newNodes) THEN 1 ELSE 0)
                /\ v.isValid <=> (v.errors = {})
                /\ ApplyValidated => (applyResult.returned <=> v.isValid))
    /\ [][ApplyFinish => (newNodes' = newNodes /\ graph' = graph)]_vars

\* two dangling inputs on one node and a rejected result
C21_Witness ==
    /\ applyPc = "thrown"
    /\ applyErr = "invalid"
    /\ DanglingCount(newNodes, DOMAIN newNodes) >= 2
    /\ \E k \in DOMAIN newNodes : DanglingIn(newNodes[k].inputs, DOMAIN newNodes) = 2
    /\ Cardinality(validateGraph(newNodes).errors) >= 2

(***************************************************************************)
(* Properties of execute_code, checked under SpecSandbox                   *)
(***************************************************************************)
CallEnded == sbPc \in {"returned", "faulted"}

\* C22: a call whose script passed a path outside every declared root to a method of
\* the sandboxed fs returns {error: "Access denied"}, nothing outside the declared
\* roots was accessed, and no fault left the call.
C22_OutsideDenied ==
    (CallEnded /\ sbOutside) =>
        /\ sbPc = "returned"
        /\ sbResult = ErrorResult("Access denied")
        /\ \A e \in sbEffects : isPathAllowed(e[2], DeclaredFolders)

\* C23: no call runs script code past the time limit or waits without end, and a script
\* that ran too long or threw comes back as an {error} result, never as a fault of the call.
C23_EndsInTime ==
    /\ sbElapsed <= TIMEOUT_MS
    /\ sbPc \notin {"awaiting", "faulted"}
    /\ (sbPc = "returned" /\ sbElapsed = TIMEOUT_MS) => sbResult.kind = "error"

\* C24: the only calls a script gets through to the file system are reads, listings,
\* stats and existence checks.
C24_ReadOnly ==
    \A e \in sbEffects : e[1] \in {"read", "list", "stat", "exists"}

(***************************************************************************)
(* Properties of the graph tools, checked under SpecQuery                  *)
(***************************************************************************)
\* the graph a tool call is to be answered from: the base graph, overlaid by the pending
\* delta when one is supplied
ViewFor(base, intent) ==
    IF ~intent.given THEN base
    ELSE LET ops == intent.operations
             kept == {id \in Ids :
                        IF OpsOn(ops, id) = {} THEN id \in DOMAIN base
                        ELSE LastOpOn(ops, id).operation # "remove"}
         IN  [id \in kept |-> IF OpsOn(ops, id) = {} THEN base[id] ELSE LastOpOn(ops, id).node]

Absent(v) == v.found \in {"null", "undefined"}

\* C25: every graph tool call is answered from the merged view of the base graph and the
\* pending delta when one is supplied, and from the base graph alone when none is.
C25_ToolsUseView ==
    LET view == ViewFor(qArgs.base, qArgs.intent)
    IN  /\ Done("get_node") =>
                IF qArgs.id \in DOMAIN view THEN qResult.value = Found(view[qArgs.id])
                ELSE Absent(qResult.value)
        /\ Done("get_subgraph") => qResult.value = getSubgraph(view, qArgs.id)
        /\ Done("find_nodes") =>
                qResult.value = {view[k] : k \in {x \in DOMAIN view :
                                    findNodesMatches(view[x].entryPoints, ToolFilters)}}

(***************************************************************************)
(* Properties of the review of deltas, checked under SpecReview            *)
(***************************************************************************)
\* C26: a delta that has been merged is no longer among the pending deltas, is not the
\* selected delta, and is never merged a second time.
C26_MergedIsRetired ==
    \A d \in DeltaIds :
        rvMerged[d] >= 1 =>
            /\ d \notin rvDeltas
            /\ rvSelected # d
            /\ rvMerged[d] = 1

(***************************************************************************)
(* Properties of the repository, checked under SpecRepo                    *)
(***************************************************************************)
\* C27: after writeDelta(D) succeeded on a repository whose loaded graph is G,
\* loadGraph returns exactly apply(G, D).
C27_WriteThenLoad ==
    repoPc = "reloaded" => repoLoaded = applyDelta(repoGraph, repoDelta).nodes

(***************************************************************************)
(* The dependency relation and the cycle check, under SpecGraph            *)
(***************************************************************************)
\* the dependency relation: A -> B when A lists B as an output or B lists A as an input
DependsEdge(g, a, b) ==
    \/ a \in DOMAIN g /\ b \in Range(g[a].outputs)
    \/ b \in DOMAIN g /\ a \in Range(g[b].inputs)

Mentioned(g) == DOMAIN g \cup UNION {Refs(g[k]) : k \in DOMAIN g}

RECURSIVE DependsReach(_, _)
DependsReach(g, S) ==
    LET T == S \cup {b \in Mentioned(g) : \E a \in S : DependsEdge(g, a, b)}
    IN  IF T = S THEN S ELSE DependsReach(g, T)

DirectedCycle(g) ==
    \E a \in Mentioned(g) : a \in DependsReach(g, {b \in Mentioned(g) : DependsEdge(g, a, b)})

\* C28: validate reports the cycle error exactly when the dependency relation (A -> B
\* when A lists B as an output or B lists A as an input) has a directed cycle; a graph
\* whose only edge is declared by both of its ends is reported valid.
C28_CycleIffDirected ==
    applyPc # "idle" =>
        ((<<"cycle">> \in validateGraph(newNodes).errors) <=> DirectedCycle(newNodes))

\* each node of g is stored under the id it carries
KeyedById(g) == \A k \in DOMAIN g : g[k].id = k

\* C29: in every graph apply produces from a graph in which each node is stored under
\* its own id, each node is again stored under its own id.
C29_KeyedById ==
    (KeyedById(graph0) /\ applyPc = "returned") => KeyedById(applyResult.nodes)

(***************************************************************************)
(* The wait before a retry, under SpecLoop                                 *)
(***************************************************************************)
\* the number of seconds a hint states
StatedSeconds(hint) == IF hint = "0" THEN 0 ELSE 7

\* the backoff for the attempt that failed, counted from 1
BackoffSeconds(n) == CASE n = 1 -> 20 [] n = 2 -> 40 [] n = 3 -> 80

\* C30 (as stated): the wait equals the seconds stated in the hint whenever a hint is
\* present, and otherwise the backoff 20, 40, 80 for attempts 1, 2, 3.
C30_Original ==
    chatPc = "sleep" =>
        lastWait = (IF lastHint # "none" THEN StatedSeconds(lastHint) ELSE BackoffSeconds(attempt + 1))

\* C30 (amended): the wait equals the seconds stated in the hint when the hint states a
\* positive number and is 60 seconds when it states 0; without a hint it is the backoff
\* 20, 40, 80 for attempts 1, 2, 3. A present hint decides the wait whatever the attempt.
C30_RetryWait ==
    chatPc = "sleep" =>
        lastWait = (IF lastHint = "none" THEN BackoffSeconds(attempt + 1)
                    ELSE IF StatedSeconds(lastHint) > 0 THEN StatedSeconds(lastHint) ELSE 60)

C30_Witness ==
    /\ chatPc = "sleep"
    /\ attempt = 2
    /\ lastHint = "7"
    /\ lastWait = 7

\* C31: a wait is performed only when another attempt follows it: when the last
\* permitted attempt is rate-limited, the error is surfaced without any further wait.
C31_WaitOnlyBeforeRetry ==
    chatPc = "sleep" => attempt + 1 < MaxRetries

(***************************************************************************)
(* Nested delegation, under SpecSpawn                                      *)
(***************************************************************************)
\* the number of sub-agents on the chain from a run of the user down to a
RECURSIVE Depth(_)
Depth(a) == IF a = 0 THEN 0 ELSE 1 + Depth(spawnParent[a])

\* C32: a sub-agent may itself spawn sub-agents and holds its slot while it waits for
\* its child; the nesting depth of active sub-agents never exceeds MAX_SUB_AGENTS, and
\* a chain of nested spawns never deadlocks: some running sub-agent is always free to
\* go on, and the spawn that would exceed the ceiling returns null at once and leaves
\* its parent running and not waiting.
C32_NestedSpawns ==
    /\ [](/\ \A a \in Running :
                /\ Depth(a) <= MAX_SUB_AGENTS
                /\ spawnParent[a] # 0 => spawnParent[a] \in Running
          /\ Running # {} => (\E a \in Running : a \notin Waiting))
    /\ [][(Len(subAgents') > Len(subAgents) /\ activeSubAgentCount >= MAX_SUB_AGENTS)
            => LET r == Len(subAgents')
               IN  /\ spawnReturn'[r] = "null"
                   /\ subAgents'[r] = "rejected"
                   /\ Running' = Running
                   /\ Requesters \subseteq Requesters']_vars

C32_Witness ==
    \E a \in Running :
        /\ Depth(a) = MAX_SUB_AGENTS
        /\ a \notin Waiting
        /\ Len(subAgents) > a
        /\ \A r \in (a + 1)..Len(subAgents) : subAgents[r] = "rejected"

\* C33: the store's getNode(id) agrees with the merged view of the base graph and the
\* selected pending delta (the delta's version for an id it adds or updates, nothing for
\* an id it removes, the base node otherwise), and the focal node of tweakNode is that
\* merged-view node.
C33_GetNodeIsMergedView ==
    LET view == ViewFor(qArgs.base, qArgs.selected)
    IN  (Done("getNode") \/ Done("tweakNode")) =>
            IF qArgs.id \in DOMAIN view THEN qResult.value = Found(view[qArgs.id])
            ELSE Absent(qResult.value)

\* C34: if writeDelta is given a delta that apply rejects, the repository is left exactly
\* as it was: no node file and no delta file is created, changed or deleted, and no
\* rejected delta remains stored.
C34_RejectedLeavesRepo ==
    repoPc = "thrown" => (repoFiles = repoFiles0 /\ repoStored = {})

(***************************************************************************)
(* Properties of the store, checked under SpecStore                        *)
(***************************************************************************)
\* C35: all tool calls of one run are answered from the same base graph and the same
\* pending delta that were current when the run started, even if the user selects a
\* different delta or the store is refreshed from disk while the run waits.
C35_RunReadsStartSnapshot ==
    \A i \in 1..Len(stAnswers) : stAnswers[i] = stRunStart

\* C36: after any sequence of save, delete, select and refresh events the selected delta
\* is none or one of the pending deltas the store holds: a deleted delta, or one whose
\* file disappeared before a refresh, is never still selected.
C36_SelectedIsPending ==
    stSelected.given => stSelected \in stIntents

(***************************************************************************)
(* Properties of the agent log, checked under SpecLog                      *)
(***************************************************************************)
\* the last n of the entries: all of them when fewer than n exist, none when n is 0
LastEntries(entries, n) ==
    IF n = 0 THEN <<>>
    ELSE IF Len(entries) <= n THEN entries
    ELSE SubSeq(entries, Len(entries) - n + 1, Len(entries))

\* the buffer holds at most maxLogs entries, the newest ones, in arrival order
LogBufferShape ==
    /\ Len(logs) <= maxLogs
    /\ \A i \in 1..(Len(logs) - 1) : logs[i + 1] = logs[i] + 1
    /\ logs # <<>> => logs[Len(logs)] = logged

\* C37: the agent log buffer never holds more than 100 entries: when it is full each
\* new entry evicts the oldest one, entries stay in arrival order, and getRecentLogs(n)
\* returns the last n entries (all entries when fewer than n exist, none when n is 0).
C37_BoundedLog ==
    /\ LogBufferShape
    /\ (logRecent.called /\ logRecent.count.given)
            => logRecent.result = LastEntries(logs, logRecent.count.n)

====
